---- MODULE Spec2Model ----
(***************************************************************************)
(* Energy-Operations-Forecast: the forecast generator                      *)
(* (pipeline/operational.py) and its command-line entry point              *)
(* (run_forecast.py), modelled as a state machine over the file system,    *)
(* the generator's local variables and the process-level random generator. *)
(*                                                                         *)
(* Numbers.  Prices and demands are fixed-point rationals: a stored        *)
(* integer x stands for x / PriceScale (resp. x / DemandScale).  Every     *)
(* multiplier of the source is a number of tenths (price) or twentieths    *)
(* (demand), and the scales carry one factor 10 (resp. 20) per             *)
(* multiplication, so that every product is exact.  Timestamps are minutes *)
(* since Monday 2024-01-01T00:00.                                          *)
(***************************************************************************)
EXTENDS Integers, Sequences, FiniteSets, TLC

VARIABLES
    fsInput,        \* the file at input_file: [state, columns, rows]
    fsDir,          \* the output directory: "noparent", "absent" or "present"
    fsFiles,        \* the three output files: file name -> [exists, rows]
    fsDangling,     \* a dangling symlink forecast_old.csv lies in the output directory
    rng,            \* np.random's global generator: [seed, pos]
    pc,             \* position inside automated_operational_forecast
    caller,         \* who called the generator: "none", "direct" or "main"
    df,             \* local df of automated_operational_forecast
    baseline_forecast,
    scenario_shock_forecast,
    scenario_delta_forecast,
    raised,         \* the text of the exception caught at line 79, or NoExc
    result,         \* the generator's return value [ok, msg], or NoResult
    written,        \* the files this invocation has written, in order
    fs0,            \* the output location as it was when the generator was called
    rng0,           \* the random generator as it was when the generator was called
    mpc,            \* position inside run_forecast.main
    dry_run,        \* args.dry_run
    exit_code,      \* main's return value, or NoExit
    calls,          \* how often the generator has been entered
    dag,            \* the state of each task of the current DAG run
    tries,          \* the attempts each task of the DAG run has made
    inv,            \* two invocations running side by side: process -> its locals
    lastWriter,     \* output file -> the side-by-side invocation that wrote to it last
    overlapped,     \* output file -> both invocations had it open at the same time
    smtp_env,       \* the SMTP_* environment variables of the email script
    epc,            \* position inside the email script (main, send_forecast_email)
    send_from,      \* who called send_forecast_email: "none", "main" or "direct"
    csv_files,      \* send_forecast_email's argument
    att_i,          \* the loop of line 85: paths looked at so far
    msg,            \* the attachments of msg, in order
    smtp_log,       \* what was asked of the SMTP server, in order
    pending,        \* what the try block of line 95 ended with, kept over the finally
    outbox,         \* the messages the SMTP server has accepted
    email_result,   \* send_forecast_email's return value, or NoResult
    email_exit,     \* the email script's main return value, or NoExit
    session,        \* st.session_state, a dict: 'user', 'oauth_state', 'oauth_timestamp'
    query_params,   \* the query parameters of the page request, a dict: 'code', 'state'
    oauth_config,   \* the three Google OAuth settings are all set
    apc,            \* where the app's script run is: "idle", "after_callback", "rerun"
    last_call,      \* what the last call into auth.py did and ended with
    session0,       \* st.session_state when that call began
    clock           \* states issued so far: secrets.token_urlsafe and time.time

vars == << fsInput, fsDir, fsFiles, fsDangling, rng, pc, caller, df,
           baseline_forecast, scenario_shock_forecast, scenario_delta_forecast,
           raised, result, written, fs0, rng0, mpc, dry_run, exit_code, calls,
           dag, tries, inv, lastWriter, overlapped,
           smtp_env, epc, send_from, csv_files, att_i, msg, smtp_log, pending, outbox,
           email_result, email_exit,
           session, query_params, oauth_config, apc, last_call, session0, clock >>

-----------------------------------------------------------------------------
(* Bounds of the model *)

MaxRows == 2        \* an input table has at most MaxRows rows
NumSeeds == 1       \* seeds of the random generator
MaxCalls == 2       \* invocations of the generator one after the other
ChunksPerFile == 2  \* write calls by which to_csv brings one file to disk

(* Program constants *)

\* the environments of the email script: complete with TLS (the default),
\* without variables at all
SmtpEnvs == { [ host |-> TRUE, user |-> TRUE, pass |-> TRUE, use_tls |-> TRUE, port_ok |-> TRUE ] }

minutes == 30                   \* timedelta(minutes=30), freq='30min'
periods == 7 * 24 * 2           \* 7 days * 24 hours * 2
default_base_price == 50
default_base_demand == 7000
retries == 2                    \* default_args['retries'] of the DAG

-----------------------------------------------------------------------------
(* Generic helpers *)

RECURSIVE Factorial(_)
Factorial(n) == IF n <= 1 THEN 1 ELSE n * Factorial(n - 1)

RECURSIVE SumSeq(_)
SumSeq(s) == IF s = << >> THEN 0 ELSE Head(s) + SumSeq(Tail(s))

RECURSIVE SubSeqs(_)
\* the subsequences of s: some of its elements, in its order
SubSeqs(s) ==
    IF s = << >> THEN { << >> }
    ELSE LET rest == SubSeqs(Tail(s))
         IN  rest \cup { << Head(s) >> \o r : r \in rest }

Range(s) == { s[i] : i \in 1..Len(s) }

Max(S) == CHOOSE x \in S : \A y \in S : y <= x

-----------------------------------------------------------------------------
(* Strings as character sequences, so that str.lower() and `in` are real *)

LowerChar(c) ==
    CASE c = "D" -> "d" [] c = "A" -> "a" [] c = "T" -> "t" [] c = "E" -> "e"
      [] c = "I" -> "i" [] c = "M" -> "m"
      [] OTHER -> c

Lower(s) == [ i \in 1..Len(s) |-> LowerChar(s[i]) ]

Contains(sub, s) ==
    \E i \in 1..(Len(s) - Len(sub) + 1) : SubSeq(s, i, i + Len(sub) - 1) = sub

s_date == << "d", "a", "t", "e" >>
s_time == << "t", "i", "m", "e" >>

c_datetime == << "d", "a", "t", "e", "t", "i", "m", "e" >>
c_Date     == << "D", "a", "t", "e" >>
c_TIME     == << "T", "I", "M", "E" >>
c_updated  == << "u", "p", "d", "a", "t", "e", "d" >>
c_region   == << "r", "e", "g", "i", "o", "n" >>
c_price    == << "f", "o", "r", "e", "c", "a", "s", "t", "_", "p", "r", "i", "c", "e" >>
c_demand   == << "f", "o", "r", "e", "c", "a", "s", "t", "_", "d", "e", "m", "a", "n", "d" >>
c_rrp      == << "R", "R", "P" >>

-----------------------------------------------------------------------------
(* Tables.  A DataFrame is [columns, rows]; rows[i][j] is the cell of row i *)
(* in column columns[j].  Every cell is a record of one shape.             *)

TsCell(m)     == [ kind |-> "datetime64", n |-> m, txt |-> << >>, name |-> "" ]
StrCell(t)    == [ kind |-> "object",     n |-> 0, txt |-> t,     name |-> "" ]
RegionCell(r) == [ kind |-> "object",     n |-> 0, txt |-> << >>, name |-> r  ]
NumCell(x)    == [ kind |-> "float64",    n |-> x, txt |-> << >>, name |-> "" ]

NaN  == "NaN"       \* a missing region value; NaN == NaN is False
NSW1 == "NSW1"      \* the default region of line 100

HasColumn(d, c) == \E j \in 1..Len(d.columns) : d.columns[j] = c

ColumnIndex(d, c) ==
    CHOOSE j \in 1..Len(d.columns) :
        d.columns[j] = c /\ \A k \in 1..(j - 1) : d.columns[k] # c

Column(d, c) == LET j == ColumnIndex(d, c) IN [ i \in 1..Len(d.rows) |-> d.rows[i][j] ]

(* The text of a timestamp as a parquet string column holds it, and         *)
(* pd.to_datetime on it: <<day, hour, minute>> <-> minutes.                 *)
FormatTs(m) == << m \div 1440, (m \div 60) % 24, m % 60 >>
Parsable(t) == Len(t) = 3
ParseTs(t)  == t[1] * 1440 + t[2] * 60 + t[3]

-----------------------------------------------------------------------------
(* The inputs the model enumerates *)

Missing    == [ state |-> "missing",    columns |-> << >>, rows |-> << >> ]  \* no file at input_file
Unreadable == [ state |-> "unreadable", columns |-> << >>, rows |-> << >> ]  \* pd.read_parquet rejects it

\* the rows an input is made of: an input holds at most MaxRows of them
History ==
    << [ ts |-> 0,    region |-> "A", price |-> 40,  demand |-> 6000 ],
       [ ts |-> -20,  region |-> "B", price |-> -30, demand |-> -1000 ],
       [ ts |-> 1450, region |-> NaN, price |-> 60,  demand |-> 8000 ],
       [ ts |-> 10,   region |-> "A", price |-> 70,  demand |-> 9000 ] >>

InputRows == { gs \in SubSeqs(History) : Len(gs) <= MaxRows }

TsKinds == { "datetime64", "str", "badstr" }

CellFor(c, kind, g) ==
    CASE c \in { c_datetime, c_Date, c_TIME } ->
            ( CASE kind = "datetime64" -> TsCell(g.ts)
                [] kind = "str"        -> StrCell(FormatTs(g.ts))
                [] OTHER               -> StrCell(<< >>) )
      [] c = c_updated -> TsCell(g.ts + 60)
      [] c = c_region  -> RegionCell(g.region)
      [] c = c_price   -> NumCell(g.price)
      [] c = c_demand  -> NumCell(g.demand)
      [] OTHER         -> NumCell(g.price)

InputTable(schema, kind, gs) ==
    [ state   |-> "table",
      columns |-> schema,
      rows    |-> [ i \in 1..Len(gs) |->
                      [ j \in 1..Len(schema) |-> CellFor(schema[j], kind, gs[i]) ] ] ]

\* the layouts of the input: the column names in order, and how the
\* timestamp column is stored
Layouts ==
    { << << c_datetime, c_region, c_price, c_demand >>, "datetime64" >>,
      << << c_region, c_Date, c_price >>,               "str" >>,
      << << c_region, c_Date, c_price >>,               "badstr" >>,
      << << c_updated, c_TIME, c_demand >>,             "datetime64" >>,
      << << c_region, c_rrp >>,                         "datetime64" >>,
      << << c_updated, c_datetime, c_price >>,          "str" >> }

InputTables ==
    { InputTable(l[1], l[2], gs) : l \in Layouts, gs \in InputRows }

InputFiles == { Missing, Unreadable } \cup InputTables

NoDf == [ columns |-> << >>, rows |-> << >> ]

-----------------------------------------------------------------------------
(* np.random.  The generator is a deterministic function of its seed and of *)
(* the number of values drawn so far; a normal draw can fall anywhere,      *)
(* below zero included, a uniform draw lies inside its interval.            *)

Seeds == 0..(NumSeeds - 1)

Raw(g, k) == LET x == g.pos + k IN (g.seed * 17 + x * x * 3 + x * 7) % 101

NormalOffsets == << 0, -1, 1, -25, 2 >>

\* np.random.normal(mu, ...), the k-th value drawn from g; mu in the unit of the caller
Normal(mu, g, k) == mu + NormalOffsets[(Raw(g, k) % Len(NormalOffsets)) + 1]

UniformTenths == << 15, 20, 24 >>

\* np.random.uniform(1.5, 2.5), the k-th value drawn from g, in tenths
Uniform(g, k) == UniformTenths[(Raw(g, k) % Len(UniformTenths)) + 1]

Advance(g, n) == [ g EXCEPT !.pos = @ + n ]

-----------------------------------------------------------------------------
(* Fixed-point arithmetic *)

MeanDen     == Factorial(MaxRows)          \* every row count divides it
PriceScale  == MeanDen * 100000            \* five multiplications by tenths
DemandScale == MeanDen * 160               \* four by twentieths; demands are multiples of 1000

TimesTenths(x, t)      == (x \div 10) * t
TimesTwentieths(x, t)  == (x \div 20) * t

Max0(x) == IF x > 0 THEN x ELSE 0           \* max(0, x)
NoClip(x) == x                              \* the clip left out
ClipLower0(x) == IF x < 0 THEN 0 ELSE x     \* Series.clip(lower=0), per element

\* Series.mean() of column c of the rows, in units of 1/scale
Mean(d, c, scale) ==
    LET col == Column(d, c)
    IN  SumSeq([ i \in 1..Len(col) |-> col[i].n ]) * ((MeanDen \div Len(col)) * (scale \div MeanDen))

-----------------------------------------------------------------------------
(* _forecast_price and _forecast_demand; noise is the value np.random.normal *)
(* returns at lines 217 and 242                                              *)

PeakHours(hour) == (7 <= hour /\ hour <= 9) \/ (17 <= hour /\ hour <= 21)

\* the off-peak branch written as "22 or later, or 6 or earlier"
price_hour_multiplier_night(hour) ==
    IF PeakHours(hour) THEN 14
    ELSE IF 22 <= hour \/ hour <= 6 THEN 7
    ELSE 10

\* lines 206-211, in tenths: `22 <= hour <= 6` is the chained comparison
\* 22 <= hour and hour <= 6
price_hour_multiplier(hour) ==
    IF PeakHours(hour) THEN 14                  \* 1.4
    ELSE IF 22 <= hour /\ hour <= 6 THEN 7      \* 0.7
    ELSE 10                                     \* 1.0

forecast_price(region_data, hour, day_of_week, is_weekend, noise) ==
    LET base_price ==
            IF Len(region_data.rows) > 0 /\ HasColumn(region_data, c_price)
            THEN Mean(region_data, c_price, PriceScale)
            ELSE default_base_price * PriceScale
        hour_multiplier == price_hour_multiplier(hour)
        weekend_multiplier == IF is_weekend # 0 THEN 8 ELSE 10      \* 0.8, 1.0
    IN  Max0(TimesTenths(TimesTenths(TimesTenths(base_price, hour_multiplier),
                                     weekend_multiplier), noise))

forecast_demand(region_data, hour, day_of_week, is_weekend, noise) ==
    LET base_demand ==
            IF Len(region_data.rows) > 0 /\ HasColumn(region_data, c_demand)
            THEN Mean(region_data, c_demand, DemandScale)
            ELSE default_base_demand * DemandScale
        hour_multiplier ==
            IF PeakHours(hour) THEN 26                  \* 1.3
            ELSE IF 1 <= hour /\ hour <= 5 THEN 12      \* 0.6
            ELSE 20                                     \* 1.0
        weekend_multiplier == IF is_weekend # 0 THEN 17 ELSE 20     \* 0.85, 1.0
    IN  Max0(TimesTwentieths(TimesTwentieths(TimesTwentieths(base_demand, hour_multiplier),
                                             weekend_multiplier), noise))

-----------------------------------------------------------------------------
(* The three generators *)

RECURSIVE Unique(_)
\* Series.unique(): the distinct values in order of first appearance
Unique(s) ==
    IF s = << >> THEN << >>
    ELSE LET u == Unique(SubSeq(s, 1, Len(s) - 1))
             x == s[Len(s)]
         IN  IF x \in Range(u) THEN u ELSE Append(u, x)

RegionNames(d) == LET col == Column(d, c_region) IN [ i \in 1..Len(col) |-> col[i].name ]

\* df[df['region'] == region]: a NaN cell equals nothing, NaN included
RegionRows(d, region) ==
    LET j == ColumnIndex(d, c_region)
        Keep(row) == row[j].name = region /\ region # NaN
    IN  [ d EXCEPT !.rows = SelectSeq(d.rows, Keep) ]

\* df['datetime'].max(), for a column with at least one row
MaxDatetime(d) == LET col == Column(d, c_datetime) IN Max({ col[i].n : i \in 1..Len(col) })

Hour(dt)      == (dt \div 60) % 24
DayOfWeek(dt) == (dt \div 1440) % 7         \* Monday is 0

\* the shoulder test with hour 6 left out
peak_period_late_shoulder(hour) ==
    IF (7 <= hour /\ hour <= 9) \/ (17 <= hour /\ hour <= 21) THEN "peak"
    ELSE IF 22 <= hour /\ hour <= 23 THEN "shoulder"
    ELSE "other"

\* lines 113-119
peak_period(hour) ==
    IF (7 <= hour /\ hour <= 9) \/ (17 <= hour /\ hour <= 21) THEN "peak"
    ELSE IF (22 <= hour /\ hour <= 23) \/ (6 <= hour /\ hour <= 6) THEN "shoulder"
    ELSE "other"

\* the weekend starting on Sunday
is_weekend_sunday(day_of_week) == IF day_of_week > 5 THEN 1 ELSE 0

\* line 111: 1 if dt.dayofweek >= 5 else 0
is_weekend_of(day_of_week) == IF day_of_week >= 5 THEN 1 ELSE 0

\* df['region'] without .unique(): one entry per input row
regions_per_row(d) == IF HasColumn(d, c_region) THEN RegionNames(d) ELSE << NSW1 >>

\* line 100
regions_of(d) == IF HasColumn(d, c_region) THEN Unique(RegionNames(d)) ELSE << NSW1 >>

\* the region filter applied to a table without a region column: no row matches
region_data_always_filtered(d, region) ==
    IF HasColumn(d, c_region) THEN RegionRows(d, region) ELSE [ d EXCEPT !.rows = << >> ]

\* line 105
region_data_of(d, region) == IF HasColumn(d, c_region) THEN RegionRows(d, region) ELSE d

\* the horizon starting at the maximum itself
start_at_max(d) == MaxDatetime(d)

\* line 90
start_forecast_of(d) == MaxDatetime(d) + minutes

generate_baseline_forecast(d, g) ==
    LET start_forecast == start_forecast_of(d)
        forecast_dates == [ k \in 1..periods |-> start_forecast + (k - 1) * minutes ]
        regions == regions_of(d)
        region_data == [ r \in 1..Len(regions) |-> region_data_of(d, regions[r]) ]
    IN  [ i \in 1..(Len(regions) * periods) |->
            LET r  == ((i - 1) \div periods) + 1
                dt == forecast_dates[((i - 1) % periods) + 1]
                hour == Hour(dt)
                day_of_week == DayOfWeek(dt)
                is_weekend == is_weekend_of(day_of_week)
            IN  [ datetime    |-> dt,
                  hour        |-> hour,
                  day_of_week |-> day_of_week,
                  is_weekend  |-> is_weekend,
                  peak_period |-> peak_period(hour),
                  region      |-> regions[r],
                  forecast_price  |-> forecast_price(region_data[r], hour, day_of_week,
                                          is_weekend, Normal(10, g, 2 * (i - 1))),
                  forecast_demand |-> forecast_demand(region_data[r], hour, day_of_week,
                                          is_weekend, Normal(20, g, 2 * (i - 1) + 1)) ] ]

\* the draws _generate_baseline_forecast makes: two per row
BaselineDraws(t) == 2 * Len(t)

\* a mask that takes in the shoulder rows as well
peak_mask_with_shoulder(row) == row.peak_period \in { "peak", "shoulder" }

\* line 176: shock_df['peak_period'] == 'peak', per row
peak_mask(row) == row.peak_period = "peak"

RECURSIVE PeakRanks(_, _, _, _)
\* the running count of peak rows over t[lo..hi], given that `before` rows of
\* t[1..lo-1] are peak rows: element i - lo + 1 is the count over t[1..i]
PeakRanks(t, lo, hi, before) ==
    IF lo > hi THEN << >>
    ELSE IF lo = hi
         THEN << before + (IF peak_mask(t[lo]) THEN 1 ELSE 0) >>
         ELSE LET mid   == (lo + hi) \div 2
                  left  == PeakRanks(t, lo, mid, before)
                  right == PeakRanks(t, mid + 1, hi, left[Len(left)])
              IN  left \o right

generate_scenario_shock_forecast(baseline_df, g) ==
    LET n == Len(baseline_df)
        rank == PeakRanks(baseline_df, 1, n, 0)
    IN  [ i \in 1..n |->
            LET b == baseline_df[i]
                \* normal(1.3, 0.1) in tenths, normal(1.15, 0.05) in twentieths
                shocked == TimesTenths(b.forecast_price, Normal(13, g, i - 1))
                spiked  == IF peak_mask(b)
                           THEN TimesTenths(shocked, Uniform(g, 2 * n + rank[i] - 1))
                           ELSE TimesTenths(shocked, 10)
            IN  [ b EXCEPT !.forecast_price  = ClipLower0(spiked),
                           !.forecast_demand =
                               ClipLower0(TimesTwentieths(b.forecast_demand,
                                                          Normal(23, g, n + i - 1))) ] ]

\* the draws _generate_scenario_shock_forecast makes
ShockDraws(t) == 2 * Len(t) + Cardinality({ i \in 1..Len(t) : peak_mask(t[i]) })

\* the difference taken the other way round
delta_baseline_minus_shock(baseline_df, shock_df) ==
    [ i \in 1..Len(baseline_df) |->
        [ datetime     |-> baseline_df[i].datetime,
          region       |-> baseline_df[i].region,
          delta_price  |-> baseline_df[i].forecast_price - shock_df[i].forecast_price,
          delta_demand |-> baseline_df[i].forecast_demand - shock_df[i].forecast_demand ] ]

generate_scenario_delta_forecast(baseline_df, shock_df) ==
    [ i \in 1..Len(baseline_df) |->
        [ datetime     |-> baseline_df[i].datetime,
          region       |-> baseline_df[i].region,
          delta_price  |-> shock_df[i].forecast_price - baseline_df[i].forecast_price,
          delta_demand |-> shock_df[i].forecast_demand - baseline_df[i].forecast_demand ] ]

-----------------------------------------------------------------------------
(* The file system *)

NoExc == ""         \* no exception

f_baseline == "forecast_baseline.csv"
f_shock    == "forecast_scenario_shock.csv"
f_delta    == "forecast_scenario_delta.csv"

OutputNames == << f_baseline, f_shock, f_delta >>

NoFile == [ exists |-> FALSE, rows |-> << >> ]
FileOf(t) == [ exists |-> TRUE, rows |-> t ]        \* DataFrame.to_csv(filepath, index=False)
Truncated == [ exists |-> TRUE, rows |-> << >> ]    \* opened for writing, nothing written

\* a write that appends to what the file holds
to_csv_append(file, t) == [ exists |-> TRUE, rows |-> file.rows \o t ]

\* line 73: to_csv opens filepath with mode 'w', what the file held is dropped
to_csv(file, t) == FileOf(t)

\* files left by an earlier deployment
StaleFiles ==
    [ name \in Range(OutputNames) |->
        FileOf(<< [ datetime |-> -100000, region |-> "old" ] >>) ]

NoFiles == [ name \in Range(OutputNames) |-> NoFile ]

Snapshot == [ dir |-> fsDir, files |-> fsFiles, dangling |-> fsDangling ]

-----------------------------------------------------------------------------
(* Values that stand for "not set" *)

NoResult == [ ok |-> FALSE, msg |-> << >> ]
NoExit   == -1
NoTable  == << >>

\* the tasks of the DAG, by the names of lines 109-171
Tasks == { "validate_input", "run_forecast", "validate_outputs", "success_notification",
           "cleanup_old_files" }

\* the two invocations that run side by side
Procs == { 1, 2 }

\* an invocation that has not been called yet
NotStarted == [ pc |-> "idle", tables |-> << >>, k |-> 1, open |-> FALSE, off |-> 0 ]

\* the SMTP_* variables: the three that must be set, SMTP_USE_TLS, and whether
\* SMTP_PORT is a number
SmtpEnv(h, u, pw, tls, port) ==
    [ host |-> h, user |-> u, pass |-> pw, use_tls |-> tls, port_ok |-> port ]

NoPending == [ kind |-> "none", type |-> "", text |-> "" ]
\* Python dicts: st.session_state and the query parameters
EmptyDict == [ k \in {} |-> "" ]
In(k, d) == k \in DOMAIN d
Put(d, k, v) == [ x \in DOMAIN d \cup { k } |-> IF x = k THEN v ELSE d[x] ]
Del(d, k) == [ x \in DOMAIN d \ { k } |-> d[x] ]

NoSession == EmptyDict
NoParams  == EmptyDict

\* no call into auth.py yet
NoCall ==
    [ fn |-> "none", ret |-> "none", entered |-> {}, clicked |-> FALSE, error |-> "",
      requests |-> << >>, token_status |-> 0, userinfo_status |-> 0, stored |-> FALSE,
      by_rerun |-> FALSE, query |-> NoParams ]

InitState ==
    /\ fsInput \in InputFiles
    /\ \E d \in { "noparent", "absent", "stale", "stale+link" } :
         /\ fsDir = (IF d \in { "noparent", "absent" } THEN d ELSE "present")
         /\ fsFiles = (IF d \in { "stale", "stale+link" } THEN StaleFiles ELSE NoFiles)
         /\ fsDangling = (d = "stale+link")
    /\ rng \in [ seed : Seeds, pos : { 0 } ]
    /\ pc = "idle"
    /\ caller = "none"
    /\ df = NoDf
    /\ baseline_forecast = NoTable
    /\ scenario_shock_forecast = NoTable
    /\ scenario_delta_forecast = NoTable
    /\ raised = NoExc
    /\ result = NoResult
    /\ written = << >>
    /\ fs0 = [ dir |-> fsDir, files |-> fsFiles, dangling |-> fsDangling ]
    /\ rng0 = rng
    /\ mpc = "idle"
    /\ dry_run = FALSE
    /\ exit_code = NoExit
    /\ calls = 0
    /\ dag = [ t \in Tasks |-> "none" ]
    /\ tries = [ t \in Tasks |-> 0 ]
    /\ inv = [ p \in Procs |-> NotStarted ]
    /\ lastWriter = [ name \in Range(OutputNames) |-> 0 ]
    /\ overlapped = [ name \in Range(OutputNames) |-> FALSE ]
    /\ epc = "idle"
    /\ send_from = "none"
    /\ csv_files = << >>
    /\ att_i = 0
    /\ msg = << >>
    /\ smtp_log = << >>
    /\ pending = NoPending
    /\ outbox = << >>
    /\ email_result = NoResult
    /\ email_exit = NoExit
    /\ session = NoSession
    /\ query_params = NoParams
    /\ apc = "idle"
    /\ last_call = NoCall
    /\ session0 = NoSession
    /\ clock = 0

Init ==
    /\ InitState
    /\ smtp_env \in SmtpEnvs
    /\ oauth_config = TRUE

-----------------------------------------------------------------------------
(* automated_operational_forecast, one action per statement that can raise  *)
(* or that touches the file system                                          *)

fsVars    == << fsInput, fsDir, fsFiles, fsDangling >>
tableVars == << baseline_forecast, scenario_shock_forecast, scenario_delta_forecast >>
mainVars  == << mpc, dry_run, exit_code >>
schedVars == << dag, tries >>
concVars  == << inv, lastWriter, overlapped >>
mailVars  == << smtp_env, epc, send_from, csv_files, att_i, msg, smtp_log, pending, outbox,
               email_result, email_exit >>
authVars  == << session, query_params, oauth_config, apc, last_call, session0, clock >>

\* entering the function: line 37
Enter(who) ==
    /\ pc' = "mkdir"
    /\ caller' = who
    /\ calls' = calls + 1
    /\ fs0' = Snapshot
    /\ rng0' = rng
    /\ written' = << >>
    /\ raised' = NoExc
    /\ result' = NoResult
    /\ df' = NoDf
    /\ baseline_forecast' = NoTable
    /\ scenario_shock_forecast' = NoTable
    /\ scenario_delta_forecast' = NoTable

\* line 79: `except Exception` catches what the statements of the try block
\* raise (OSError, ValueError, ArrowInvalid, ... all derive from Exception)
Caught(text) == TRUE

\* a statement inside the try block raises: control goes to line 79
Raise(text) ==
    /\ raised' = text
    /\ pc' = IF Caught(text) THEN "except" ELSE "propagated"

\* a direct call of the generator (the email script, the module's __main__)
DirectCall ==
    /\ pc = "idle" /\ mpc = "idle"
    /\ Enter("direct")
    /\ UNCHANGED << fsVars, rng, mainVars, schedVars, concVars, mailVars,
                    authVars >>

\* line 41: Path(output_dir).mkdir(exist_ok=True)
Mkdir ==
    /\ pc = "mkdir"
    /\ IF fsDir = "noparent"
       THEN Raise("[Errno 2] No such file or directory: output_dir") /\ UNCHANGED fsDir
       ELSE fsDir' = "present" /\ pc' = "read" /\ UNCHANGED raised
    /\ UNCHANGED << fsInput, fsFiles, fsDangling, rng, caller, df, tableVars, result,
                    written, fs0, rng0, mainVars, calls, schedVars,
                    concVars, mailVars,
                    authVars >>

\* a reader that falls back to sample data when the file is missing
read_parquet_or_sample(f) ==
    CASE f.state = "missing" ->
            [ ok |-> TRUE,
              df |-> [ columns |-> << c_datetime, c_region, c_price, c_demand >>,
                       rows |-> << << TsCell(0), RegionCell("A"), NumCell(40), NumCell(6000) >> >> ],
              err |-> NoExc ]
      [] f.state = "unreadable" ->
            [ ok |-> FALSE, df |-> NoDf, err |-> "Parquet magic bytes not found" ]
      [] OTHER ->
            [ ok |-> TRUE, df |-> [ columns |-> f.columns, rows |-> f.rows ], err |-> NoExc ]

\* pd.read_parquet(input_file): the table, or the exception it raises
read_parquet(f) ==
    CASE f.state = "missing" ->
            [ ok |-> FALSE, df |-> NoDf, err |-> "[Errno 2] No such file or directory: input_file" ]
      [] f.state = "unreadable" ->
            [ ok |-> FALSE, df |-> NoDf, err |-> "Parquet magic bytes not found" ]
      [] OTHER ->
            [ ok |-> TRUE, df |-> [ columns |-> f.columns, rows |-> f.rows ], err |-> NoExc ]

\* line 45: df = pd.read_parquet(input_file)
ReadParquet ==
    /\ pc = "read"
    /\ LET r == read_parquet(fsInput)
       IN  IF r.ok
           THEN df' = r.df /\ pc' = "resolve" /\ UNCHANGED raised
           ELSE Raise(r.err) /\ UNCHANGED df
    /\ UNCHANGED << fsVars, rng, caller, tableVars, result, written, fs0, rng0, mainVars, calls, schedVars,
                    concVars, mailVars,
                    authVars >>

\* the columns whose lower-cased name contains 'time' alone
date_cols_time_only(d) ==
    LET IsTimeLike(col) == Contains(s_time, Lower(col))
    IN  SelectSeq(d.columns, IsTimeLike)

\* line 50: the columns whose lower-cased name contains 'date' or 'time', in column order
date_cols(d) ==
    LET IsDateLike(col) == Contains(s_date, Lower(col)) \/ Contains(s_time, Lower(col))
    IN  SelectSeq(d.columns, IsDateLike)

\* line 52: df.rename(columns={old: 'datetime'})
Rename(d, old) ==
    [ d EXCEPT !.columns = [ j \in 1..Len(d.columns) |->
                               IF d.columns[j] = old THEN c_datetime ELSE d.columns[j] ] ]

\* lines 47-54
EnsureDatetime ==
    /\ pc = "resolve"
    /\ IF HasColumn(df, c_datetime)
       THEN pc' = "convert" /\ UNCHANGED << df, raised >>
       ELSE IF date_cols(df) # << >>
            THEN /\ df' = Rename(df, date_cols(df)[1])
                 /\ pc' = "convert"
                 /\ UNCHANGED raised
            ELSE Raise("No datetime column found in input data") /\ UNCHANGED df
    /\ UNCHANGED << fsVars, rng, caller, tableVars, result, written, fs0, rng0, mainVars, calls, schedVars,
                    concVars, mailVars,
                    authVars >>

\* a dtype test that accepts every column
any_dtype_is_datetime(col) == TRUE

\* pd.api.types.is_datetime64_any_dtype(df['datetime'])
is_datetime64_any_dtype(col) == \A i \in 1..Len(col) : col[i].kind = "datetime64"

\* pd.to_datetime(df['datetime']) on a column of strings that all parse
to_datetime(d) ==
    LET j == ColumnIndex(d, c_datetime)
    IN  [ d EXCEPT !.rows = [ i \in 1..Len(d.rows) |->
                                [ d.rows[i] EXCEPT ![j] = TsCell(ParseTs(d.rows[i][j].txt)) ] ] ]

\* lines 56-58
ConvertDatetime ==
    /\ pc = "convert"
    /\ LET col == Column(df, c_datetime)
       IN  IF is_datetime64_any_dtype(col)
           THEN pc' = "generate" /\ UNCHANGED << df, raised >>
           ELSE IF \A i \in 1..Len(col) : Parsable(col[i].txt)
                THEN /\ df' = to_datetime(df)
                     /\ pc' = "generate"
                     /\ UNCHANGED raised
                ELSE Raise("Unknown datetime string format, unable to parse") /\ UNCHANGED df
    /\ UNCHANGED << fsVars, rng, caller, tableVars, result, written, fs0, rng0, mainVars, calls, schedVars,
                    concVars, mailVars,
                    authVars >>

\* lines 60-63; pd.date_range raises when df['datetime'].max() is NaT
Generate ==
    /\ pc = "generate"
    /\ IF Len(df.rows) = 0
       THEN /\ Raise("Neither start nor end can be NaT")
            /\ UNCHANGED << rng, tableVars >>
       ELSE LET b  == generate_baseline_forecast(df, rng)
                g1 == Advance(rng, BaselineDraws(b))
                s  == generate_scenario_shock_forecast(b, g1)
            IN  /\ baseline_forecast' = b
                /\ scenario_shock_forecast' = s
                /\ scenario_delta_forecast' = generate_scenario_delta_forecast(b, s)
                /\ rng' = Advance(g1, ShockDraws(b))
                /\ pc' = "write"
                /\ UNCHANGED raised
    /\ UNCHANGED << fsVars, caller, df, result, written, fs0, rng0, mainVars, calls, schedVars,
                    concVars, mailVars,
                    authVars >>

\* the list with the shock table first
output_files_shock_first ==
    << [ forecast_df |-> scenario_shock_forecast, filepath |-> f_shock ],
       [ forecast_df |-> baseline_forecast,       filepath |-> f_baseline ],
       [ forecast_df |-> scenario_delta_forecast, filepath |-> f_delta ] >>

\* lines 66-70
output_files ==
    << [ forecast_df |-> baseline_forecast,       filepath |-> f_baseline ],
       [ forecast_df |-> scenario_shock_forecast, filepath |-> f_shock ],
       [ forecast_df |-> scenario_delta_forecast, filepath |-> f_delta ] >>

\* lines 72-74, one iteration: to_csv either writes the file, or fails to open
\* it, or fails after it has truncated it
WriteOutput ==
    /\ pc = "write"
    /\ LET out == output_files[Len(written) + 1]
       IN  \E outcome \in { "ok", "open fails", "write fails" } :
             CASE outcome = "ok" ->
                    /\ fsFiles' = [ fsFiles EXCEPT ![out.filepath] =
                                                  to_csv(fsFiles[out.filepath], out.forecast_df) ]
                    /\ written' = Append(written, out.filepath)
                    /\ pc' = IF Len(written) + 1 = Len(output_files) THEN "finish" ELSE "write"
                    /\ UNCHANGED raised
               [] outcome = "open fails" ->
                    /\ Raise("[Errno 13] Permission denied")
                    /\ UNCHANGED << fsFiles, written >>
               [] OTHER ->
                    /\ fsFiles' = [ fsFiles EXCEPT ![out.filepath] = Truncated ]
                    /\ Raise("[Errno 28] No space left on device")
                    /\ UNCHANGED written
    /\ UNCHANGED << fsInput, fsDir, fsDangling, rng, caller, df, tableVars, result, fs0,
                    rng0, mainVars, calls, schedVars,
                    concVars, mailVars,
                    authVars >>

\* lines 76-77
ReturnSuccess ==
    /\ pc = "finish"
    /\ result' = [ ok |-> TRUE, msg |-> << "Forecast generation completed successfully" >> ]
    /\ pc' = "returned"
    /\ UNCHANGED << fsVars, rng, caller, df, tableVars, raised, written, fs0, rng0, mainVars, calls, schedVars,
                    concVars, mailVars,
                    authVars >>

\* a message that drops the exception's text
error_msg_generic(e) == << "Error in automated_operational_forecast" >>

\* line 80: f"Error in automated_operational_forecast: {str(e)}"
error_msg(e) == << "Error in automated_operational_forecast: ", e >>

\* lines 79-82
ExceptHandler ==
    /\ pc = "except"
    /\ result' = [ ok |-> FALSE, msg |-> error_msg(raised) ]
    /\ pc' = "returned"
    /\ UNCHANGED << fsVars, rng, caller, df, tableVars, raised, written, fs0, rng0, mainVars, calls, schedVars,
                    concVars, mailVars,
                    authVars >>

-----------------------------------------------------------------------------
(* run_forecast.main *)

\* the dry-run flag ignored
main_branch_no_dry_run(input_exists, d) ==
    IF ~input_exists THEN "not found" ELSE "forecast"

\* lines 92-101: what main does with the input path and the dry-run flag
main_branch(input_exists, d) ==
    IF ~input_exists THEN "not found"
    ELSE IF d THEN "dry run"
    ELSE "forecast"

\* Path(args.input).exists()
InputExists == fsInput.state # "missing"

\* lines 90-106: the existence check, the dry-run return, the call
MainBody(d) ==
    /\ dry_run' = d
    /\ CASE main_branch(InputExists, d) = "not found" ->
              /\ exit_code' = 1 /\ mpc' = "done"
              /\ UNCHANGED << pc, caller, calls, fs0, rng0, written, raised, result, df,
                              tableVars >>
         [] main_branch(InputExists, d) = "dry run" ->
              /\ exit_code' = 0 /\ mpc' = "done"
              /\ UNCHANGED << pc, caller, calls, fs0, rng0, written, raised, result, df,
                              tableVars >>
         [] OTHER ->
              /\ Enter("main")
              /\ mpc' = "calling"
              /\ UNCHANGED exit_code
    /\ UNCHANGED << fsVars, rng >>

\* python run_forecast.py [--dry-run] from a shell
MainStart ==
    /\ mpc = "idle" /\ pc = "idle"
    /\ \E d \in BOOLEAN : MainBody(d)
    /\ UNCHANGED << schedVars, concVars, mailVars,
                    authVars >>

\* lines 115-121: glob forecast_*.csv and stat each entry; stat raises on a dangling link
ListingRaises == fsDangling

\* lines 108-134, once the generator has returned
MainAfterForecast ==
    /\ mpc = "calling" /\ pc = "returned"
    /\ exit_code' = IF result.ok
                    THEN (IF ListingRaises THEN 1 ELSE 0)
                    ELSE 1
    /\ mpc' = "done"
    /\ UNCHANGED << fsVars, rng, pc, caller, df, tableVars, raised, result, written, fs0,
                    rng0, dry_run, calls, schedVars, concVars, mailVars,
                    authVars >>

-----------------------------------------------------------------------------

Next ==
    \/ DirectCall
    \/ Mkdir
    \/ ReadParquet
    \/ EnsureDatetime
    \/ ConvertDatetime
    \/ Generate
    \/ WriteOutput
    \/ ReturnSuccess
    \/ ExceptHandler
    \/ MainStart
    \/ MainAfterForecast

Spec == Init /\ [][Next]_vars

-----------------------------------------------------------------------------
(* Invocations one after the other on the same output directory *)

\* the input files the invocations are given: one region, two regions, no file
SeqInputs ==
    { InputTable(<< c_datetime, c_region, c_price, c_demand >>, "datetime64", << History[1] >>),
      InputTable(<< c_datetime, c_region, c_price, c_demand >>, "datetime64",
                 << History[1], History[2] >>),
      Missing }

InitSeq ==
    /\ Init
    /\ fsInput \in SeqInputs
    /\ fsDir \in { "absent", "present" }
    /\ ~fsDangling

\* a further call once the previous one has returned, with its own input_file
CallAgain ==
    /\ pc = "returned" /\ caller = "direct"
    /\ calls < MaxCalls
    /\ fsInput' \in SeqInputs
    /\ Enter("direct")
    /\ UNCHANGED << fsDir, fsFiles, fsDangling, rng, mainVars, schedVars, concVars, mailVars,
                    authVars >>

NextSeq ==
    \/ DirectCall
    \/ CallAgain
    \/ Mkdir
    \/ ReadParquet
    \/ EnsureDatetime
    \/ ConvertDatetime
    \/ Generate
    \/ WriteOutput
    \/ ReturnSuccess
    \/ ExceptHandler

SpecSeq == InitSeq /\ [][NextSeq]_vars

-----------------------------------------------------------------------------
(* The Airflow DAG energy_ops_forecast: one DAG run.  A task is started once *)
(* every task upstream of it has succeeded (trigger rule all_success); a     *)
(* task that fails is tried again until it has used its retries.             *)

\* validate_input >> run_forecast >> validate_outputs >>
\*     [success_notification, cleanup_old_files]
Upstream(t) ==
    CASE t = "validate_input"       -> { }
      [] t = "run_forecast"         -> { "validate_input" }
      [] t = "validate_outputs"     -> { "run_forecast" }
      [] OTHER                      -> { "validate_outputs" }

Runnable(t) ==
    /\ dag[t] \in { "none", "up_for_retry" }
    /\ \A u \in Upstream(t) : dag[u] = "success"

\* the state of task t after an attempt, its number already counted in tries'
AfterAttempt(t, ok) ==
    dag' = [ dag EXCEPT ![t] = IF ok THEN "success"
                               ELSE IF tries'[t] <= retries THEN "up_for_retry"
                               ELSE "failed" ]

Attempt(t) == tries' = [ tries EXCEPT ![t] = @ + 1 ]

\* validate_input_data: the exception it raises, or NoExc
validate_input_data(f) ==
    IF f.state = "missing" THEN "Input file not found"
    ELSE LET r == read_parquet(f)
         IN  IF ~r.ok THEN r.err
             ELSE IF Len(r.df.rows) = 0 THEN "Input file is empty"
             ELSE NoExc

\* st_size of an output file, in rows: a table the generator writes always has rows
st_size(file) == Len(file.rows)

\* a check of the files' existence alone
check_files_exist(files) ==
    IF \E name \in Range(OutputNames) : ~files[name].exists
    THEN "Missing output files"
    ELSE NoExc

\* check_forecast_outputs: the exception it raises, or NoExc
check_forecast_outputs(files) ==
    IF \E name \in Range(OutputNames) : ~files[name].exists
    THEN "Missing output files"
    ELSE IF \E name \in Range(OutputNames) : st_size(files[name]) = 0
         THEN "Output file is empty"
         ELSE NoExc

genVars == << pc, caller, df, tableVars, raised, result, written, fs0, rng0, calls >>

\* task validate_input_data
DagValidateInput ==
    /\ Runnable("validate_input")
    /\ Attempt("validate_input")
    /\ AfterAttempt("validate_input", validate_input_data(fsInput) = NoExc)
    /\ UNCHANGED << fsVars, rng, genVars, mainVars, concVars, mailVars,
                    authVars >>

\* task run_forecast starts: cd PROJECT_PATH; python run_forecast.py --verbose
DagRunForecast ==
    /\ Runnable("run_forecast")
    /\ Attempt("run_forecast")
    /\ dag' = [ dag EXCEPT !["run_forecast"] = "running" ]
    /\ MainBody(FALSE)
    /\ UNCHANGED << concVars, mailVars, authVars >>

\* task run_forecast ends with the exit status of the command
DagRunForecastExit ==
    /\ dag["run_forecast"] = "running" /\ mpc = "done"
    /\ UNCHANGED tries
    /\ AfterAttempt("run_forecast", exit_code = 0)
    /\ UNCHANGED << fsVars, rng, genVars, mainVars, concVars, mailVars,
                    authVars >>

\* an invocation of the generator outside the DAG run opens one of the output
\* files for writing (line 73) before validate_forecast_outputs looks at it
OtherInvocationOpens ==
    /\ dag["run_forecast"] = "success"
    /\ dag["validate_outputs"] \in { "none", "up_for_retry" }
    /\ \E name \in Range(OutputNames) :
         /\ fsFiles[name] # Truncated
         /\ fsFiles' = [ fsFiles EXCEPT ![name] = Truncated ]
    /\ UNCHANGED << fsInput, fsDir, fsDangling, rng, genVars, mainVars, schedVars, concVars, mailVars,
                    authVars >>

\* task validate_forecast_outputs
DagValidateOutputs ==
    /\ Runnable("validate_outputs")
    /\ Attempt("validate_outputs")
    /\ AfterAttempt("validate_outputs", check_forecast_outputs(fsFiles) = NoExc)
    /\ UNCHANGED << fsVars, rng, genVars, mainVars, concVars, mailVars,
                    authVars >>

\* task send_success_notification: the mail is sent, or the mail server refuses
DagNotify ==
    /\ Runnable("success_notification")
    /\ Attempt("success_notification")
    /\ \E sent \in BOOLEAN : AfterAttempt("success_notification", sent)
    /\ UNCHANGED << fsVars, rng, genVars, mainVars, concVars, mailVars,
                    authVars >>

\* task cleanup_old_files: removes old logs, ends with echo
DagCleanup ==
    /\ Runnable("cleanup_old_files")
    /\ Attempt("cleanup_old_files")
    /\ AfterAttempt("cleanup_old_files", TRUE)
    /\ UNCHANGED << fsVars, rng, genVars, mainVars, concVars, mailVars,
                    authVars >>

\* a task one of whose upstream tasks has failed is not run
DagUpstreamFailed ==
    /\ \E t \in Tasks :
         /\ dag[t] = "none"
         /\ \E u \in Upstream(t) : dag[u] \in { "failed", "upstream_failed" }
         /\ dag' = [ dag EXCEPT ![t] = "upstream_failed" ]
    /\ UNCHANGED << fsVars, rng, genVars, mainVars, tries, concVars, mailVars,
                    authVars >>

\* the input files of a DAG run: no file, no parquet file, an empty table, a
\* table without timestamp column, a table with one row
DagInputs ==
    { Missing, Unreadable,
      InputTable(<< c_datetime, c_region, c_price, c_demand >>, "datetime64", << >>),
      InputTable(<< c_region, c_rrp >>, "datetime64", << History[1] >>),
      InputTable(<< c_datetime, c_region, c_price, c_demand >>, "datetime64", << History[1] >>) }

InitDag ==
    /\ Init
    /\ fsInput \in DagInputs
    /\ fsDir \in { "absent", "present" }

NextDag ==
    \/ DagValidateInput
    \/ DagRunForecast
    \/ Mkdir
    \/ ReadParquet
    \/ EnsureDatetime
    \/ ConvertDatetime
    \/ Generate
    \/ WriteOutput
    \/ ReturnSuccess
    \/ ExceptHandler
    \/ MainAfterForecast
    \/ DagRunForecastExit
    \/ OtherInvocationOpens
    \/ DagValidateOutputs
    \/ DagNotify
    \/ DagCleanup
    \/ DagUpstreamFailed

SpecDag == InitDag /\ [][NextDag]_vars

-----------------------------------------------------------------------------
(* Two invocations of the generator run side by side, in two processes, on  *)
(* the same output directory.  What an invocation does before its first     *)
(* write (lines 37-63) touches nothing the other can see but the directory, *)
(* and is one step; to_csv (line 73) opens the file with mode 'w' and then  *)
(* brings the rows to disk in several write calls, each at the position the *)
(* process's own file handle has reached.                                   *)

\* the input files the two invocations are given: invocation 1 the table of
\* two regions, invocation 2 that table or the table of one region
ConcInputs(p) ==
    { f \in SeqInputs : f.state = "table" /\ (p = 1 => Len(f.rows) = 2) }

\* every process has a random generator of its own
ProcRng(p) == [ seed |-> NumSeeds + p, pos |-> 0 ]

\* lines 45-63 on a valid input: the three tables, in the order of output_files
TablesOf(f, g) ==
    LET d == read_parquet(f).df
        b == generate_baseline_forecast(d, g)
        s == generate_scenario_shock_forecast(b, Advance(g, BaselineDraws(b)))
    IN  << b, s, generate_scenario_delta_forecast(b, s) >>

\* positions no process has written: a file grown past its end reads as zeros there
Hole == [ hole |-> TRUE ]

\* the last row of the c-th of the ChunksPerFile write calls for a table of n rows
ChunkEnd(n, c) == (n * c) \div ChunksPerFile

\* write(2) of the rows t[lo..hi] at the rows lo..hi of the file
WriteAt(file, t, lo, hi) ==
    [ exists |-> TRUE,
      rows   |-> [ i \in 1..Max({ Len(file.rows), hi }) |->
                     IF lo <= i /\ i <= hi THEN t[i]
                     ELSE IF i <= Len(file.rows) THEN file.rows[i]
                     ELSE Hole ] ]

\* an open that leaves the content in place
open_keep(file) == [ file EXCEPT !.exists = TRUE ]

\* open(filepath, 'w'): the file is created or emptied
open_w(file) == Truncated

\* lines 37-63 of invocation p
ConcStart(p) ==
    /\ inv[p].pc = "idle"
    /\ \E f \in ConcInputs(p) :
         inv' = [ inv EXCEPT ![p] = [ pc |-> "write", tables |-> TablesOf(f, ProcRng(p)),
                                      k |-> 1, open |-> FALSE, off |-> 0 ] ]
    /\ fsDir' = "present"
    /\ UNCHANGED << fsInput, fsFiles, fsDangling, rng, genVars, mainVars, schedVars,
                    lastWriter, overlapped, mailVars,
                    authVars >>

\* line 73 of invocation p, the open: no lock is taken, the file is emptied
ConcOpen(p) ==
    /\ inv[p].pc = "write" /\ ~inv[p].open
    /\ LET name == OutputNames[inv[p].k]
       IN  /\ fsFiles' = [ fsFiles EXCEPT ![name] = open_w(fsFiles[name]) ]
           /\ overlapped' = [ overlapped EXCEPT ![name] =
                                 @ \/ \E q \in Procs \ { p } :
                                          inv[q].open /\ inv[q].k = inv[p].k ]
    /\ inv' = [ inv EXCEPT ![p].open = TRUE, ![p].off = 0 ]
    /\ UNCHANGED << fsInput, fsDir, fsDangling, rng, genVars, mainVars, schedVars,
                    lastWriter, mailVars,
                    authVars >>

\* line 73 of invocation p, one write call; the last one closes the file and
\* the loop of line 72 moves on
ConcWriteChunk(p) ==
    /\ inv[p].pc = "write" /\ inv[p].open
    /\ LET name == OutputNames[inv[p].k]
           t    == inv[p].tables[inv[p].k]
           c    == inv[p].off + 1
       IN  /\ fsFiles' = [ fsFiles EXCEPT ![name] =
                              WriteAt(fsFiles[name], t, ChunkEnd(Len(t), c - 1) + 1,
                                      ChunkEnd(Len(t), c)) ]
           /\ lastWriter' = [ lastWriter EXCEPT ![name] = p ]
           /\ inv' = IF c < ChunksPerFile
                     THEN [ inv EXCEPT ![p].off = c ]
                     ELSE IF inv[p].k < Len(OutputNames)
                          THEN [ inv EXCEPT ![p].off = 0, ![p].open = FALSE, ![p].k = @ + 1 ]
                          ELSE [ inv EXCEPT ![p].off = 0, ![p].open = FALSE, ![p].pc = "done" ]
    /\ UNCHANGED << fsInput, fsDir, fsDangling, rng, genVars, mainVars, schedVars,
                    overlapped, mailVars,
                    authVars >>

InitConc ==
    /\ Init
    /\ fsInput = Missing
    /\ rng.seed = 0
    /\ fsDir = "present"
    /\ ~fsDangling

NextConc ==
    \/ \E p \in Procs : ConcStart(p)
    \/ \E p \in Procs : ConcOpen(p)
    \/ \E p \in Procs : ConcWriteChunk(p)

SpecConc == InitConc /\ [][NextConc]_vars

-----------------------------------------------------------------------------
(* scripts/automated_email_forecast.py: the weekly job that runs the        *)
(* generator and mails its three files.  A file's bytes are the rows the    *)
(* generator wrote to it.                                                    *)

\* the environments of the job: complete with and without TLS, SMTP_HOST or
\* SMTP_PASS not set, SMTP_PORT not a number
EmailEnvs ==
    { SmtpEnv(TRUE, TRUE, TRUE, TRUE, TRUE), SmtpEnv(TRUE, TRUE, TRUE, FALSE, TRUE),
      SmtpEnv(FALSE, TRUE, TRUE, TRUE, TRUE), SmtpEnv(TRUE, TRUE, FALSE, TRUE, TRUE),
      SmtpEnv(TRUE, TRUE, TRUE, TRUE, FALSE) }

\* the csv_files a caller other than main passes
PathLists == { OutputNames, << f_delta, f_baseline >> }

\* base64, the transfer encoding add_attachment gives to bytes: groups of
\* three, the last one filled up, and the number of fillers
Filler == [ filler |-> TRUE ]

b64encode(data) ==
    LET n == Len(data)
        groups == (n + 2) \div 3
        at(i) == IF i <= n THEN data[i] ELSE Filler
    IN  [ groups |-> [ g \in 1..groups |-> << at((3 * g) - 2), at((3 * g) - 1), at(3 * g) >> ],
          fill   |-> (3 * groups) - n ]

b64decode(payload) ==
    LET n == (3 * Len(payload.groups)) - payload.fill
    IN  [ i \in 1..n |-> payload.groups[((i - 1) \div 3) + 1][((i - 1) % 3) + 1] ]

\* msg.add_attachment(file_data, maintype='text', subtype='csv', filename=file_name)
add_attachment(m, file_data, file_name) ==
    Append(m, [ maintype |-> "text", subtype |-> "csv", filename |-> file_name,
                cte |-> "base64", payload |-> b64encode(file_data) ])

\* the bytes a receiver gets out of an attachment
get_content(part) == b64decode(part.payload)

\* the calls made on the connection, in order
smtp_steps_login_first(use_tls) ==
    IF use_tls THEN << "ehlo", "login", "starttls", "ehlo", "send_message" >>
    ELSE << "ehlo", "login", "send_message" >>

smtp_steps(use_tls) ==
    IF use_tls THEN << "ehlo", "starttls", "ehlo", "login", "send_message" >>
    ELSE << "ehlo", "login", "send_message" >>

\* the two except clauses of send_forecast_email
except_result(type, text) ==
    [ ok  |-> FALSE,
      msg |-> << (IF type = "SMTPException" THEN "SMTP error: " ELSE "Failed to send email: "),
                 text >> ]

ConfigMissing ==
    [ ok |-> FALSE, msg |-> << "SMTP configuration missing. Please set SMTP_HOST, SMTP_USER, and SMTP_PASS environment variables." >> ]

EmailSent == [ ok |-> TRUE, msg |-> << "Email sent successfully to ", "osmanorka@gmail.com" >> ]

\* what the finally clause leaves of the try block's outcome when quit
\* returns
after_quit(p) ==
    IF p.kind = "return" THEN EmailSent ELSE except_result(p.type, p.text)

\* main's return value
email_exit_status_forecast_only(success, email_success) ==
    IF success THEN 0 ELSE 1

email_exit_status(success, email_success) ==
    IF ~success THEN 1
    ELSE IF email_success THEN 0 ELSE 1

notMail == << fsVars, rng, genVars, mainVars, schedVars, concVars, authVars >>

\* send_forecast_email returns r
SendReturns(r) ==
    /\ email_result' = r
    /\ epc' = "sent"

\* main up to the call of the generator
EmailMainStart ==
    /\ epc = "idle" /\ pc = "idle" /\ mpc = "idle"
    /\ Enter("email")
    /\ epc' = "forecast"
    /\ send_from' = "main"
    /\ UNCHANGED << fsVars, rng, mainVars, schedVars, concVars, authVars >>
    /\ UNCHANGED << smtp_env, csv_files, att_i, msg, smtp_log, pending, outbox, email_result,
                    email_exit >>

\* main once the generator has returned
EmailAfterForecast ==
    /\ epc = "forecast" /\ pc = "returned"
    /\ IF ~result.ok
       THEN /\ email_exit' = email_exit_status(FALSE, FALSE)
            /\ epc' = "done"
            /\ UNCHANGED csv_files
       ELSE /\ csv_files' = OutputNames
            /\ epc' = "config"
            /\ UNCHANGED email_exit
    /\ UNCHANGED << smtp_env, send_from, att_i, msg, smtp_log, pending, outbox, email_result >>
    /\ UNCHANGED notMail

\* a call of send_forecast_email from elsewhere
DirectSend ==
    /\ epc = "idle" /\ pc = "idle"
    /\ csv_files' \in PathLists
    /\ send_from' = "direct"
    /\ epc' = "config"
    /\ UNCHANGED << smtp_env, att_i, msg, smtp_log, pending, outbox, email_result, email_exit >>
    /\ UNCHANGED notMail

\* get_smtp_config and the test of the three settings
SendConfig ==
    /\ epc = "config"
    /\ IF ~smtp_env.port_ok
       THEN SendReturns(except_result("ValueError", "invalid literal for int() with base 10"))
       ELSE IF ~(smtp_env.host /\ smtp_env.user /\ smtp_env.pass)
            THEN SendReturns(ConfigMissing)
            ELSE epc' = "attach" /\ UNCHANGED email_result
    /\ att_i' = 0
    /\ msg' = << >>
    /\ UNCHANGED << smtp_env, send_from, csv_files, smtp_log, pending, outbox, email_exit >>
    /\ UNCHANGED notMail

\* one turn of the loop over csv_files
AttachFile ==
    /\ epc = "attach" /\ att_i < Len(csv_files)
    /\ LET file_path == csv_files[att_i + 1]
       IN  IF fsFiles[file_path].exists
           THEN \/ /\ msg' = add_attachment(msg, fsFiles[file_path].rows, file_path)
                   /\ att_i' = att_i + 1
                   /\ UNCHANGED << epc, email_result >>
                \/ /\ SendReturns(except_result("PermissionError", "Permission denied"))
                   /\ UNCHANGED << msg, att_i >>
           ELSE /\ att_i' = att_i + 1
                /\ UNCHANGED << msg, epc, email_result >>
    /\ UNCHANGED << smtp_env, send_from, csv_files, smtp_log, pending, outbox, email_exit >>
    /\ UNCHANGED notMail

\* smtplib.SMTP(smtp_host, smtp_port), which connects
Connect ==
    /\ epc = "attach" /\ att_i = Len(csv_files)
    /\ \/ /\ smtp_log' = << "connect" >>
          /\ epc' = "smtp"
          /\ UNCHANGED email_result
       \/ /\ \E type \in { "SMTPException", "OSError" } :
                SendReturns(except_result(type, "connection failed"))
          /\ UNCHANGED smtp_log
    /\ UNCHANGED << smtp_env, send_from, csv_files, att_i, msg, pending, outbox, email_exit >>
    /\ UNCHANGED notMail

\* the next call on the connection; the server accepts it or the call raises
SmtpStep ==
    /\ epc = "smtp"
    /\ LET steps == smtp_steps(smtp_env.use_tls)
           k     == Len(smtp_log)
       IN  /\ smtp_log' = Append(smtp_log, steps[k])
           /\ \/ /\ k < Len(steps)
                 /\ UNCHANGED << epc, pending, outbox >>
              \/ /\ k = Len(steps)
                 /\ outbox' = Append(outbox, msg)
                 /\ pending' = [ kind |-> "return", type |-> "", text |-> "" ]
                 /\ epc' = "finally"
              \/ /\ \E type \in { "SMTPException", "OSError" } :
                       pending' = [ kind |-> "raise", type |-> type, text |-> steps[k] ]
                 /\ epc' = "finally"
                 /\ UNCHANGED outbox
    /\ UNCHANGED << smtp_env, send_from, csv_files, att_i, msg, email_result, email_exit >>
    /\ UNCHANGED notMail

\* the finally clause: server.quit(), which may raise as well
Quit ==
    /\ epc = "finally"
    /\ smtp_log' = Append(smtp_log, "quit")
    /\ \/ SendReturns(after_quit(pending))
       \/ SendReturns(except_result("SMTPException", "Connection unexpectedly closed"))
    /\ UNCHANGED << smtp_env, send_from, csv_files, att_i, msg, pending, outbox, email_exit >>
    /\ UNCHANGED notMail

\* back in the caller
SendReturn ==
    /\ epc = "sent"
    /\ epc' = "done"
    /\ email_exit' = IF send_from = "main" THEN email_exit_status(TRUE, email_result.ok)
                     ELSE email_exit
    /\ UNCHANGED << smtp_env, send_from, csv_files, att_i, msg, smtp_log, pending, outbox,
                    email_result >>
    /\ UNCHANGED notMail

EmailInputs ==
    { InputTable(<< c_datetime, c_region, c_price, c_demand >>, "datetime64", << History[1] >>),
      Missing }

InitEmail ==
    /\ InitState
    /\ smtp_env \in EmailEnvs
    /\ oauth_config = TRUE
    /\ fsInput \in EmailInputs
    /\ rng.seed = 0
    /\ fsDir \in { "absent", "present" }
    /\ ~fsDangling

NextEmail ==
    \/ EmailMainStart
    \/ EmailAfterForecast
    \/ DirectSend
    \/ Mkdir
    \/ ReadParquet
    \/ EnsureDatetime
    \/ ConvertDatetime
    \/ Generate
    \/ WriteOutput
    \/ ReturnSuccess
    \/ ExceptHandler
    \/ SendConfig
    \/ AttachFile
    \/ Connect
    \/ SmtpStep
    \/ Quit
    \/ SendReturn

SpecEmail == InitEmail /\ [][NextEmail]_vars

-----------------------------------------------------------------------------
(* app/auth.py: the login gate of the dashboard.  A Streamlit script run    *)
(* calls the gate once; st.rerun() ends the run at once, by an exception,   *)
(* and starts another one, in which no button counts as clicked.            *)

MaxStates == 2      \* state tokens get_google_auth_url can issue

\* the state of a callback nobody issued
ForgedState == 0

demo_user ==
    [ email |-> "demo@energy-ops.com", name |-> "Demo User",
      picture |-> "https://via.placeholder.com/60", verified_email |-> TRUE,
      access_token |-> "demo_token" ]

\* the answers of Google's token endpoint and user-info endpoint:
\* requests raised, or a status and whether the body is JSON
Response(exc, status, json_ok) ==
    [ raised |-> exc, status |-> status, json_ok |-> json_ok ]

TokenResponses ==
    { Response(FALSE, 200, TRUE), Response(FALSE, 200, FALSE), Response(FALSE, 400, TRUE),
      Response(TRUE, 0, FALSE) }

InfoResponses ==
    { Response(FALSE, 200, TRUE), Response(FALSE, 200, FALSE), Response(FALSE, 401, TRUE),
      Response(TRUE, 0, FALSE) }

\* the accounts the user-info endpoint describes: one with and one without
\* an email address
UserInfos ==
    { [ email |-> "alice@example.com", name |-> "Alice", picture |-> "", verified_email |-> TRUE ],
      [ email |-> "", name |-> "Bob", picture |-> "", verified_email |-> FALSE ] }

\* the page requests of the browser once n states have been issued
PageRequests(n) ==
    { NoParams, Put(NoParams, "code", "4/0A"), Put(NoParams, "state", ForgedState) }
    \cup { Put(Put(NoParams, "code", "4/0A"), "state", s) : s \in { ForgedState } \cup 1..n }

OAuthPath == { "require_login_original", "handle_oauth_callback", "show_login_page" }

\* get_google_oauth_config's error
ConfigError ==
    "Google OAuth configuration missing. Please set GOOGLE_CLIENT_ID, GOOGLE_CLIENT_SECRET, and OAUTH_REDIRECT_URI."

\* the two loops that delete oauth_state and oauth_timestamp
clear_oauth(s) == Del(Del(s, "oauth_state"), "oauth_timestamp")

\* get_google_auth_url's effect on the session; n is the new token, and the
\* time of its issue
get_google_auth_url(s, n) == Put(Put(s, "oauth_state", n), "oauth_timestamp", n)

\* state != st.session_state.get('oauth_state')
state_differs_when_stored(s, state) == In("oauth_state", s) /\ s["oauth_state"] # state

state_differs(s, state) == ~In("oauth_state", s) \/ s["oauth_state"] # state

exchange_code_for_token(s, state, resp) ==
    IF state_differs(s, state)
    THEN [ ok |-> FALSE, error |-> "Invalid state parameter", requests |-> << >>, status |-> 0 ]
    ELSE LET sent == << "POST https://oauth2.googleapis.com/token" >>
         IN  IF resp.raised
             THEN [ ok |-> FALSE, error |-> "Token exchange error", requests |-> sent,
                    status |-> 0 ]
             ELSE IF resp.status = 200
                  THEN IF resp.json_ok
                       THEN [ ok |-> TRUE, error |-> "", requests |-> sent,
                              status |-> resp.status ]
                       ELSE [ ok |-> FALSE, error |-> "Token exchange error",
                              requests |-> sent, status |-> resp.status ]
                  ELSE [ ok |-> FALSE, error |-> "Token exchange failed: 400",
                         requests |-> sent, status |-> resp.status ]

get_user_info_any_status(resp) ==
    [ ok |-> TRUE, error |-> "",
      requests |-> << "GET https://www.googleapis.com/oauth2/v2/userinfo" >>,
      status |-> resp.status ]

get_user_info(resp) ==
    LET sent == << "GET https://www.googleapis.com/oauth2/v2/userinfo" >>
    IN  IF resp.raised
        THEN [ ok |-> FALSE, error |-> "User info error", requests |-> sent, status |-> 0 ]
        ELSE IF resp.status = 200
             THEN IF resp.json_ok
                  THEN [ ok |-> TRUE, error |-> "", requests |-> sent, status |-> resp.status ]
                  ELSE [ ok |-> FALSE, error |-> "User info error", requests |-> sent,
                         status |-> resp.status ]
             ELSE [ ok |-> FALSE, error |-> "Failed to get user info: 401", requests |-> sent,
                    status |-> resp.status ]

\* the 'user' entry of lines 143-149
user_entry(user_info) ==
    [ email |-> user_info.email, name |-> user_info.name, picture |-> user_info.picture,
      verified_email |-> user_info.verified_email, access_token |-> "ya29" ]

\* handle_oauth_callback up to its return or its st.rerun(): the session it
\* leaves and what it ends with
handle_oauth_callback(s, q, cfg, tok, info, user_info) ==
    LET base == [ session |-> s, ret |-> "False", error |-> "", requests |-> << >>,
                  token_status |-> 0, userinfo_status |-> 0, stored |-> FALSE ]
    IN  IF ~(In("code", q) /\ In("state", q))
        THEN base
        ELSE IF ~cfg
             THEN [ base EXCEPT !.error = ConfigError ]
             ELSE LET t == exchange_code_for_token(s, q["state"], tok)
                  IN  IF t.error # ""
                      THEN [ base EXCEPT !.session = clear_oauth(s), !.error = t.error,
                                         !.requests = t.requests, !.token_status = t.status ]
                      ELSE LET u == get_user_info(info)
                           IN  IF u.error # ""
                               THEN [ base EXCEPT !.error = u.error,
                                                  !.requests = t.requests \o u.requests,
                                                  !.token_status = t.status,
                                                  !.userinfo_status = u.status ]
                               ELSE [ base EXCEPT
                                        !.session = clear_oauth(Put(s, "user",
                                                                    user_entry(user_info))),
                                        !.ret = "rerun",
                                        !.requests = t.requests \o u.requests,
                                        !.token_status = t.status,
                                        !.userinfo_status = u.status,
                                        !.stored = TRUE ]

\* show_user_info: the Sign Out button deletes 'user' and reruns
show_user_info(s, click) ==
    IF ~In("user", s)
    THEN [ session |-> s, ret |-> "True", clicked |-> FALSE ]
    ELSE IF click
         THEN [ session |-> Del(s, "user"), ret |-> "rerun", clicked |-> TRUE ]
         ELSE [ session |-> s, ret |-> "True", clicked |-> FALSE ]

\* lines 274-281 of require_login
set_demo_user_never(s) == s

set_demo_user(s) == IF ~In("user", s) THEN Put(s, "user", demo_user) ELSE s

\* show_login_page's effect on the session; n is the next token
show_login_page(s, q, cfg, n) ==
    LET s1 == IF ~(In("code", q) \/ In("state", q)) THEN clear_oauth(s) ELSE s
    IN  IF ~cfg THEN s1 ELSE get_google_auth_url(s1, n)

notAuth == << fsVars, rng, genVars, mainVars, schedVars, concVars, mailVars >>

\* the clicks a script run can see: none in a run that st.rerun() started
Clicks == IF apc = "rerun" THEN { FALSE } ELSE BOOLEAN

\* the browser loads the page, with or without query parameters; the
\* session it gets is the one it had or a new one
Navigate ==
    /\ apc = "idle"
    /\ query_params' \in PageRequests(clock)
    /\ session' \in { session, NoSession }
    /\ last_call' = NoCall
    /\ session0' = session'
    /\ UNCHANGED << oauth_config, apc, clock >>
    /\ UNCHANGED notAuth

\* a script run whose gate is require_login
RequireLogin ==
    /\ apc \in { "idle", "rerun" }
    /\ \E click \in Clicks :
         LET r == show_user_info(set_demo_user(session), click)
         IN  /\ session' = r.session
             /\ apc' = IF r.ret = "rerun" THEN "rerun" ELSE "idle"
             /\ last_call' = [ NoCall EXCEPT !.fn = "require_login", !.ret = r.ret,
                                             !.entered = { "require_login", "show_user_info" },
                                             !.clicked = r.clicked,
                                             !.by_rerun = (apc = "rerun"),
                                             !.query = query_params ]
    /\ session0' = session
    /\ UNCHANGED << query_params, oauth_config, clock >>
    /\ UNCHANGED notAuth

\* a script run whose gate is require_login_original, up to the end of its
\* call of handle_oauth_callback
HandleOauthCallback ==
    /\ apc \in { "idle", "rerun" }
    /\ \E tok \in TokenResponses, info \in InfoResponses, user_info \in UserInfos,
          cleared \in BOOLEAN :
         LET r == handle_oauth_callback(session, query_params, oauth_config, tok, info,
                                        user_info)
         IN  /\ session' = r.session
             /\ apc' = IF r.ret = "rerun" THEN "rerun" ELSE "after_callback"
             /\ query_params' = IF r.ret = "rerun" /\ cleared THEN NoParams ELSE query_params
             /\ last_call' = [ NoCall EXCEPT
                                 !.fn = "handle_oauth_callback", !.ret = r.ret,
                                 !.entered = { "require_login_original",
                                               "handle_oauth_callback" },
                                 !.error = r.error, !.requests = r.requests,
                                 !.token_status = r.token_status,
                                 !.userinfo_status = r.userinfo_status,
                                 !.stored = r.stored,
                                 !.by_rerun = (apc = "rerun"),
                                 !.query = query_params ]
    /\ session0' = session
    /\ UNCHANGED << oauth_config, clock >>
    /\ UNCHANGED notAuth

\* require_login_original once handle_oauth_callback has returned False
AfterCallback ==
    /\ apc = "after_callback"
    /\ IF In("user", session) /\ session["user"].email # ""
       THEN \E click \in (IF last_call.by_rerun THEN { FALSE } ELSE BOOLEAN) :
              LET r == show_user_info(session, click)
              IN  /\ session' = r.session
                  /\ apc' = IF r.ret = "rerun" THEN "rerun" ELSE "idle"
                  /\ last_call' = [ last_call EXCEPT
                                      !.fn = "require_login_original", !.ret = r.ret,
                                      !.entered = @ \cup { "show_user_info" },
                                      !.clicked = r.clicked ]
                  /\ UNCHANGED clock
       ELSE /\ oauth_config => clock < MaxStates
            /\ session' = show_login_page(session, query_params, oauth_config, clock + 1)
            /\ clock' = IF oauth_config THEN clock + 1 ELSE clock
            /\ apc' = "idle"
            /\ last_call' = [ last_call EXCEPT
                                !.fn = "require_login_original", !.ret = "False",
                                !.entered = @ \cup { "show_login_page" } ]
    /\ UNCHANGED << query_params, oauth_config, session0 >>
    /\ UNCHANGED notAuth

InitAuth ==
    /\ InitState
    /\ smtp_env \in SmtpEnvs
    /\ oauth_config \in BOOLEAN
    /\ fsInput = Missing
    /\ rng.seed = 0
    /\ fsDir = "present"
    /\ ~fsDangling

NextAuth ==
    \/ Navigate
    \/ RequireLogin
    \/ HandleOauthCallback
    \/ AfterCallback

SpecAuth == InitAuth /\ [][NextAuth]_vars

-----------------------------------------------------------------------------
(* Properties *)

Successful == pc = "returned" /\ result.ok

\* the distinct values of the input's region column (NaN is one value)
InputRegions ==
    LET j == ColumnIndex(fsInput, c_region)
    IN  { fsInput.rows[i][j].name : i \in 1..Len(fsInput.rows) }

Keys(t) == { << t[i].region, t[i].datetime >> : i \in 1..Len(t) }

\* C1: after a successful run on an input with N distinct regions, baseline,
\* shock and delta each have N * 336 rows and the same set of
\* (region, datetime) pairs.
C1_RowCounts ==
    (Successful /\ HasColumn(fsInput, c_region)) =>
        LET N == Cardinality(InputRegions)
        IN  /\ N >= 1
            /\ Len(baseline_forecast) = N * 336
            /\ Len(scenario_shock_forecast) = N * 336
            /\ Len(scenario_delta_forecast) = N * 336
            /\ Keys(baseline_forecast) = Keys(scenario_shock_forecast)
            /\ Keys(baseline_forecast) = Keys(scenario_delta_forecast)

C1_Witness ==
    /\ Successful /\ HasColumn(fsInput, c_region)
    /\ InputRegions = { "A", NaN }
    /\ Len(fsInput.rows) = 2
    /\ Len(scenario_delta_forecast) = 672

\* C2: row by row, delta is shock minus baseline in price and in demand, and
\* row i of the three tables carries the same (region, datetime).
C2_DeltaIsShockMinusBaseline ==
    Successful =>
        /\ Len(scenario_shock_forecast) = Len(baseline_forecast)
        /\ Len(scenario_delta_forecast) = Len(baseline_forecast)
        /\ \A i \in 1..Len(baseline_forecast) :
             LET b == baseline_forecast[i]
                 s == scenario_shock_forecast[i]
                 d == scenario_delta_forecast[i]
             IN  /\ d.delta_price = s.forecast_price - b.forecast_price
                 /\ d.delta_demand = s.forecast_demand - b.forecast_demand
                 /\ d.region = b.region /\ s.region = b.region
                 /\ d.datetime = b.datetime /\ s.datetime = b.datetime

\* a shock price clamped to 0 under a positive baseline, and an unclamped one
C2_Witness ==
    /\ Successful
    /\ \E i \in 1..Len(baseline_forecast) :
         /\ baseline_forecast[i].forecast_price > 0
         /\ scenario_shock_forecast[i].forecast_price = 0
         /\ scenario_delta_forecast[i].delta_price = - baseline_forecast[i].forecast_price
    /\ \E i \in 1..Len(baseline_forecast) : scenario_delta_forecast[i].delta_demand > 0

\* C3: every forecast_price and forecast_demand of the baseline and of the
\* shock table is >= 0.
C3_NonNegative ==
    (pc \in { "write", "finish", "returned" }) =>
        /\ \A i \in 1..Len(baseline_forecast) :
             /\ baseline_forecast[i].forecast_price >= 0
             /\ baseline_forecast[i].forecast_demand >= 0
        /\ \A i \in 1..Len(scenario_shock_forecast) :
             /\ scenario_shock_forecast[i].forecast_price >= 0
             /\ scenario_shock_forecast[i].forecast_demand >= 0

\* a region with a negative mean (B: -30 and -1000), a draw below zero on a
\* positive base, and a shock factor below zero on a positive baseline
C3_Witness ==
    /\ Successful
    /\ HasColumn(fsInput, c_region) /\ HasColumn(fsInput, c_demand)
    /\ \E i \in 1..Len(baseline_forecast) :
         baseline_forecast[i].region = "B" /\ baseline_forecast[i].forecast_price = 0
    /\ \E i \in 1..Len(baseline_forecast) :
         baseline_forecast[i].region = "A" /\ baseline_forecast[i].forecast_demand = 0
    /\ \E i \in 1..Len(baseline_forecast) :
         /\ baseline_forecast[i].forecast_demand > 0
         /\ scenario_shock_forecast[i].forecast_demand = 0

\* C4: for every region the forecast timestamps are max + 30 min * k for
\* k = 1..336, in this order: the first 30 minutes after the input's maximum
\* timestamp, the last 7 days after it.
C4_Horizon ==
    Successful =>
        LET M == MaxDatetime(df)
            t == baseline_forecast
        IN  /\ \A r \in { t[i].region : i \in 1..Len(t) } :
                 LET idx == { i \in 1..Len(t) : t[i].region = r }
                 IN  /\ Cardinality(idx) = 336
                     /\ { t[i].datetime : i \in idx } = { M + 30 * k : k \in 1..336 }
            /\ \A i \in 1..(Len(t) - 1) :
                 IF t[i + 1].region = t[i].region
                 THEN t[i + 1].datetime = t[i].datetime + 30
                 ELSE t[i].datetime = M + 7 * 24 * 60 /\ t[i + 1].datetime = M + 30

\* the scenario of the specification: regions A and B, maximum 2024-01-01T00:00
C4_Witness ==
    /\ Successful
    /\ HasColumn(fsInput, c_region) /\ InputRegions = { "A", "B" }
    /\ MaxDatetime(df) = 0
    /\ Len(baseline_forecast) = 672
    /\ baseline_forecast[1].datetime = 30
    /\ baseline_forecast[336].datetime = 10080
    /\ baseline_forecast[672].datetime = 10080

\* C5: called with an input path that does not exist, the generator returns
\* (False, message) and creates or modifies none of the three output files.
C5_MissingInputWritesNothing ==
    (fsInput.state = "missing" /\ pc # "idle") =>
        /\ fsFiles = fs0.files
        /\ written = << >>
        /\ pc = "returned" => (~result.ok /\ result.msg # << >>)

\* the directory was created on the way, the files were not
C5_Witness ==
    /\ fsInput.state = "missing" /\ pc = "returned" /\ ~result.ok
    /\ fs0.dir = "absent" /\ fsDir = "present"
    /\ fsFiles = NoFiles

\* C6: no exception leaves the generator; a failure at any step returns
\* (False, message) with the exception's text in the message, and (True, ...)
\* is returned only after all three files have been written.
C6_FailuresAreReported ==
    /\ pc # "propagated"
    /\ raised # NoExc => pc \in { "except", "returned" }
    /\ pc = "returned" =>
         IF result.ok
         THEN /\ raised = NoExc
              /\ written = OutputNames
              /\ fsFiles[f_baseline] = FileOf(baseline_forecast)
              /\ fsFiles[f_shock] = FileOf(scenario_shock_forecast)
              /\ fsFiles[f_delta] = FileOf(scenario_delta_forecast)
         ELSE /\ raised # NoExc
              /\ \E k \in 1..Len(result.msg) : result.msg[k] = raised

\* the third write fails after two files have been written
C6_Witness ==
    /\ pc = "returned" /\ ~result.ok
    /\ written = << f_baseline, f_shock >>
    /\ raised = "[Errno 28] No space left on device"

\* C7: main returns 0 exactly when (a) dry-run is set and the input exists,
\* or (b) dry-run is not set, the input exists and the generator returned
\* success.
C7_ExitStatus ==
    mpc = "done" =>
        ( exit_code = 0 <=>
            \/ (dry_run /\ InputExists)
            \/ (~dry_run /\ InputExists /\ result.ok) )

\* C8: in dry-run mode main never calls the generator, writes no output file
\* and creates no output directory; its status depends only on whether the
\* input path exists.
C8_DryRunTouchesNothing ==
    (dry_run /\ mpc # "idle") =>
        /\ calls = 0
        /\ pc = "idle"
        /\ mpc = "done"
        /\ Snapshot = fs0
        /\ result = NoResult
        /\ exit_code = IF InputExists THEN 0 ELSE 1

\* an input that exists and cannot be read, an output directory that does not exist
C8_Witness ==
    /\ dry_run /\ mpc = "done"
    /\ fsInput = Unreadable
    /\ fsDir = "absent"
    /\ exit_code = 0

RegionsIn(t) == { t[i].region : i \in 1..Len(t) }

\* C9: the regions of each output table are the distinct values of the input's
\* region column; without a region column the only region is 'NSW1' and its
\* base values are computed from all input rows.
C9_RegionSet ==
    Successful =>
        IF HasColumn(fsInput, c_region)
        THEN /\ RegionsIn(baseline_forecast) = InputRegions
             /\ RegionsIn(scenario_shock_forecast) = InputRegions
             /\ RegionsIn(scenario_delta_forecast) = InputRegions
        ELSE /\ RegionsIn(baseline_forecast) = { NSW1 }
             /\ RegionsIn(scenario_shock_forecast) = { NSW1 }
             /\ RegionsIn(scenario_delta_forecast) = { NSW1 }
             /\ \A i \in 1..Len(baseline_forecast) :
                  LET b == baseline_forecast[i]
                  IN  /\ b.forecast_price =
                           forecast_price(df, b.hour, b.day_of_week, b.is_weekend,
                                          Normal(10, rng0, 2 * (i - 1)))
                      /\ b.forecast_demand =
                           forecast_demand(df, b.hour, b.day_of_week, b.is_weekend,
                                           Normal(20, rng0, 2 * (i - 1) + 1))

\* no region column, two input rows with different demands
C9_Witness ==
    /\ Successful
    /\ ~HasColumn(fsInput, c_region)
    /\ Len(fsInput.rows) = 2
    /\ Len(baseline_forecast) = 336
    /\ baseline_forecast[1].region = NSW1
    /\ baseline_forecast[1].forecast_demand > 0

\* no column is named 'datetime' and no lower-cased column name contains
\* 'date' or 'time'
NoTimestampColumn(f) ==
    \A j \in 1..Len(f.columns) :
        /\ f.columns[j] # c_datetime
        /\ ~Contains(s_date, Lower(f.columns[j]))
        /\ ~Contains(s_time, Lower(f.columns[j]))

\* the column the resolution picks holds a value that is no timestamp and
\* does not parse as one
Unconvertible(f) ==
    /\ ~NoTimestampColumn(f)
    /\ LET c   == IF HasColumn(f, c_datetime) THEN c_datetime ELSE date_cols(f)[1]
           col == Column(f, c)
       IN  \E i \in 1..Len(col) : col[i].kind # "datetime64" /\ ~Parsable(col[i].txt)

\* C10: without a timestamp column, or with one that cannot be converted, the
\* generator returns a failure result and writes none of the three files.
C10_NoTimestampFails ==
    (fsInput.state = "table" /\ pc # "idle"
        /\ (NoTimestampColumn(fsInput) \/ Unconvertible(fsInput))) =>
        /\ written = << >>
        /\ fsFiles = fs0.files
        /\ pc \notin { "generate", "write", "finish" }
        /\ pc = "returned" => ~result.ok

\* a 'Date' column of strings that do not parse, existing output files untouched
C10_Witness ==
    /\ fsInput.state = "table" /\ Unconvertible(fsInput)
    /\ pc = "returned" /\ ~result.ok
    /\ raised = "Unknown datetime string format, unable to parse"
    /\ fs0.files = StaleFiles /\ fsFiles = StaleFiles

Generated == pc \in { "write", "finish", "returned" } /\ raised = NoExc

\* C11: peak_period is 'peak' exactly for the hours 7-9 and 17-21, 'shoulder'
\* exactly for 6, 22 and 23, 'other' exactly for 0-5 and 10-16, and every hour
\* of the day gets exactly one of the three.
C11_PeakPeriod ==
    Generated =>
        /\ { (baseline_forecast[i].datetime \div 60) % 24 : i \in 1..Len(baseline_forecast) }
              = 0..23
        /\ \A i \in 1..Len(baseline_forecast) :
             LET b == baseline_forecast[i]
                 h == (b.datetime \div 60) % 24
             IN  /\ b.peak_period \in { "peak", "shoulder", "other" }
                 /\ b.peak_period = "peak" <=> h \in { 7, 8, 9, 17, 18, 19, 20, 21 }
                 /\ b.peak_period = "shoulder" <=> h \in { 6, 22, 23 }
                 /\ b.peak_period = "other" <=> h \in { 0, 1, 2, 3, 4, 5, 10, 11, 12, 13, 14, 15, 16 }
                 /\ scenario_shock_forecast[i].peak_period = b.peak_period

\* rows at 06:00, 09:30, 16:30, 21:30 and 23:30 with their three labels
C11_Witness ==
    /\ Successful
    /\ \E i \in 1..Len(baseline_forecast) :
         baseline_forecast[i].datetime % 1440 = 360 /\ baseline_forecast[i].peak_period = "shoulder"
    /\ \E i \in 1..Len(baseline_forecast) :
         baseline_forecast[i].datetime % 1440 = 570 /\ baseline_forecast[i].peak_period = "peak"
    /\ \E i \in 1..Len(baseline_forecast) :
         baseline_forecast[i].datetime % 1440 = 990 /\ baseline_forecast[i].peak_period = "other"
    /\ \E i \in 1..Len(baseline_forecast) :
         baseline_forecast[i].datetime % 1440 = 1290 /\ baseline_forecast[i].peak_period = "peak"
    /\ \E i \in 1..Len(baseline_forecast) :
         baseline_forecast[i].datetime % 1440 = 1410 /\ baseline_forecast[i].peak_period = "shoulder"

\* C12: is_weekend is 1 exactly when the row's timestamp falls on a Saturday
\* or a Sunday (dayofweek 5 or 6) and 0 otherwise; hour and day_of_week are
\* those of the row's own timestamp.  Minute 0 is Monday 2024-01-01 00:00.
C12_WeekendFlag ==
    Generated =>
        \A i \in 1..Len(baseline_forecast) :
            LET b    == baseline_forecast[i]
                day  == b.datetime \div 1440          \* whole days since that Monday
                into == b.datetime - day * 1440       \* minutes into the day
            IN  /\ b.hour = into \div 60
                /\ b.day_of_week = day % 7
                /\ b.is_weekend \in { 0, 1 }
                /\ b.is_weekend = 1 <=> (day % 7 = 5 \/ day % 7 = 6)

\* Saturday 2024-01-06 00:00, Sunday 2024-01-07 23:30 and Friday 2024-01-05 23:30
C12_Witness ==
    /\ Successful
    /\ \E i \in 1..Len(baseline_forecast) :
         LET b == baseline_forecast[i]
         IN  b.datetime = 5 * 1440 /\ b.day_of_week = 5 /\ b.hour = 0 /\ b.is_weekend = 1
    /\ \E i \in 1..Len(baseline_forecast) :
         LET b == baseline_forecast[i]
         IN  b.datetime = 6 * 1440 + 1410 /\ b.day_of_week = 6 /\ b.hour = 23 /\ b.is_weekend = 1
    /\ \E i \in 1..Len(baseline_forecast) :
         LET b == baseline_forecast[i]
         IN  b.datetime = 4 * 1440 + 1410 /\ b.day_of_week = 4 /\ b.is_weekend = 0

\* the base price of a region as line 200-203 computes it from the input table
BasePriceOf(region) ==
    LET data == region_data_of(df, region)
    IN  IF Len(data.rows) > 0 /\ HasColumn(data, c_price)
        THEN Mean(data, c_price, PriceScale)
        ELSE 50 * PriceScale

\* C13: in the price forecast the hour multiplier is 1.4 for the hours 7-9 and
\* 17-21 and 1.0 for every other hour, the hours 22, 23 and 0-6 included; the
\* 0.7 multiplier is selected for no hour.
C13_PriceHourMultiplier ==
    Generated =>
        \A i \in 1..Len(baseline_forecast) :
            LET b      == baseline_forecast[i]
                h      == (b.datetime \div 60) % 24
                tenths == IF h \in { 7, 8, 9, 17, 18, 19, 20, 21 } THEN 14 ELSE 10
                wknd   == IF b.is_weekend = 1 THEN 8 ELSE 10
                noise  == Normal(10, rng0, 2 * (i - 1))
                scaled == ((BasePriceOf(b.region) \div 10) * tenths) \div 10
                value  == (((scaled * wknd) \div 10) * noise)
            IN  /\ b.forecast_price = (IF value > 0 THEN value ELSE 0)
                /\ price_hour_multiplier(h) # 7

\* a weekday row at 23:00 and one at 03:00 whose price is the region's mean
\* times the noise alone, and a weekday row at 08:00 above it
C13_Witness ==
    /\ Successful
    /\ \E i, j, k \in 1..Len(baseline_forecast) :
         LET b == baseline_forecast[i]
             c == baseline_forecast[j]
             e == baseline_forecast[k]
         IN  /\ b.region = c.region /\ b.region = e.region
             /\ BasePriceOf(b.region) > 0
             /\ b.hour = 23 /\ b.is_weekend = 0
             /\ b.forecast_price = (BasePriceOf(b.region) \div 10) * Normal(10, rng0, 2 * (i - 1))
             /\ c.hour = 3 /\ c.is_weekend = 0
             /\ c.forecast_price = (BasePriceOf(b.region) \div 10) * Normal(10, rng0, 2 * (j - 1))
             /\ e.hour = 8 /\ e.is_weekend = 0
             /\ e.forecast_price > BasePriceOf(b.region)

\* the input rows that carry the region value r, a missing (NaN) value being
\* one region value like any other; all rows when there is no region column
HistoricalRows(r) ==
    IF HasColumn(df, c_region)
    THEN LET j == ColumnIndex(df, c_region)
             OfRegion(row) == row[j].name = r
         IN  [ df EXCEPT !.rows = SelectSeq(df.rows, OfRegion) ]
    ELSE df

\* C14: the base value of a region's forecasts is the mean of that region's
\* historical forecast_price (forecast_demand) when the region has at least
\* one historical row and the column exists, and the default 50.0 (7000.0)
\* otherwise; hour, weekend and noise multipliers are applied to it.
C14_BaseValue ==
    Generated =>
        \A i \in 1..Len(baseline_forecast) :
            LET b == baseline_forecast[i]
            IN  /\ b.forecast_price =
                     forecast_price(HistoricalRows(b.region), b.hour, b.day_of_week,
                                    b.is_weekend, Normal(10, rng0, 2 * (i - 1)))
                /\ b.forecast_demand =
                     forecast_demand(HistoricalRows(b.region), b.hour, b.day_of_week,
                                     b.is_weekend, Normal(20, rng0, 2 * (i - 1) + 1))

\* C15: after any sequence of invocations that do not overlap, whenever the
\* most recent one returned success, the three files exist and hold exactly
\* the tables of that invocation: nothing an earlier invocation (or an
\* earlier deployment) left in them survives, and the tables are a function
\* of the input and the random draws alone, not of the files found.
C15_LatestRunWins ==
    (Successful /\ calls >= 1) =>
        LET b == generate_baseline_forecast(df, rng0)
            s == generate_scenario_shock_forecast(b, Advance(rng0, BaselineDraws(b)))
        IN  /\ fsFiles[f_baseline].exists /\ fsFiles[f_shock].exists /\ fsFiles[f_delta].exists
            /\ fsFiles[f_baseline].rows = b
            /\ fsFiles[f_shock].rows = s
            /\ fsFiles[f_delta].rows = generate_scenario_delta_forecast(b, s)
            /\ baseline_forecast = b
            /\ scenario_shock_forecast = s

\* the second invocation succeeds on a one-region input over the files of a
\* first, successful invocation on a two-region input
C15_Witness ==
    /\ Successful /\ calls = 2
    /\ Len(fs0.files[f_baseline].rows) = 672
    /\ Len(fs0.files[f_delta].rows) = 672
    /\ Len(fsFiles[f_baseline].rows) = 336
    /\ Len(fsFiles[f_delta].rows) = 336

\* an input the generator accepts: a table with at least one row and a
\* timestamp column that is, or converts to, datetime64
ValidInput(f) ==
    /\ f.state = "table"
    /\ Len(f.rows) > 0
    /\ ~NoTimestampColumn(f)
    /\ ~Unconvertible(f)

\* the exceptions of a to_csv that cannot open or cannot finish its file
WriteErrors == { "[Errno 13] Permission denied", "[Errno 28] No space left on device" }

\* C16: when the output directory does not exist, its parent missing or not,
\* the generator called with a valid input creates the directory and persists
\* the three tables in it (no write being refused by the file system).
C16_CreatesMissingDirectory ==
    (pc = "returned" /\ calls = 1 /\ ValidInput(fsInput)
        /\ fs0.dir \in { "absent", "noparent" } /\ raised \notin WriteErrors) =>
        /\ result.ok
        /\ fsDir = "present"
        /\ fsFiles[f_baseline] = FileOf(baseline_forecast)
        /\ fsFiles[f_shock] = FileOf(scenario_shock_forecast)
        /\ fsFiles[f_delta] = FileOf(scenario_delta_forecast)

\* C17: when the input file is missing or unreadable the output location is
\* left exactly as it was before the call: no output file created or changed,
\* no output directory created.
C17_FailedReadLeavesNoTrace ==
    (fsInput.state \in { "missing", "unreadable" } /\ calls = 1) =>
        /\ Snapshot = fs0
        /\ pc = "returned" => ~result.ok

\* the table this invocation computed for an output file
TableFor(name) ==
    CASE name = f_baseline -> baseline_forecast
      [] name = f_shock    -> scenario_shock_forecast
      [] OTHER             -> scenario_delta_forecast

\* the files are written in the order baseline, shock, delta, each at most
\* once, and a file this invocation has written holds this invocation's table
WrittenInOrder ==
    /\ Len(written) <= 3
    /\ written = SubSeq(<< f_baseline, f_shock, f_delta >>, 1, Len(written))
    /\ \A k \in 1..Len(written) : fsFiles[written[k]] = FileOf(TableFor(written[k]))
    /\ raised \in WriteErrors => (Len(written) < 3 /\ (pc = "returned" => ~result.ok))

\* C18, as stated: the files are written in the order baseline, shock, delta,
\* each at most once; if a write fails the files already written keep this
\* invocation's content, every remaining file keeps the content it had before
\* the call, and the result is a failure.
C18_NoRollback ==
    calls = 1 =>
        /\ WrittenInOrder
        /\ raised \in WriteErrors =>
             \A k \in (Len(written) + 1)..3 :
                 fsFiles[OutputNames[k]] = fs0.files[OutputNames[k]]

\* C18, amended: as above, except that the file whose write failed keeps its
\* earlier content only if it could not be opened; a write that fails after
\* the file was opened leaves that file truncated.  The files after it keep
\* the content they had before the call.
C18_NoRollbackButTruncation ==
    calls = 1 =>
        /\ WrittenInOrder
        /\ raised \in WriteErrors =>
             /\ fsFiles[OutputNames[Len(written) + 1]]
                    \in { fs0.files[OutputNames[Len(written) + 1]], Truncated }
             /\ \A k \in (Len(written) + 2)..3 :
                    fsFiles[OutputNames[k]] = fs0.files[OutputNames[k]]
        /\ raised = NoExc =>
             \A k \in (Len(written) + 1)..3 :
                 fsFiles[OutputNames[k]] = fs0.files[OutputNames[k]]

\* the write of the shock file fails half-way over the files of an earlier
\* deployment: baseline is new, shock is truncated, delta is the old file
C18_Witness ==
    /\ pc = "returned" /\ ~result.ok /\ calls = 1
    /\ raised = "[Errno 28] No space left on device"
    /\ written = << f_baseline >>
    /\ fs0.files = StaleFiles
    /\ fsFiles[f_baseline] = FileOf(baseline_forecast)
    /\ fsFiles[f_shock] = Truncated
    /\ fsFiles[f_delta] = StaleFiles[f_delta]

\* the task has been started in this DAG run
Started(t) == tries[t] >= 1

AllPresentNonEmpty ==
    \A name \in { "forecast_baseline.csv", "forecast_scenario_shock.csv",
                   "forecast_scenario_delta.csv" } :
        fsFiles[name].exists /\ Len(fsFiles[name].rows) > 0

\* C19: the tasks of a DAG run start in the order validate_input_data,
\* run_forecast, validate_forecast_outputs, then success notification and
\* cleanup; the success notification is sent only in runs where run_forecast
\* exited 0 and check_forecast_outputs found the three files present with
\* non-zero size; if one of them is missing or empty the check fails and no
\* success notification is sent.
C19_PipelineOrder ==
    /\ Started("run_forecast") => dag["validate_input"] = "success"
    /\ Started("validate_outputs") =>
         (dag["run_forecast"] = "success" /\ mpc = "done" /\ exit_code = 0)
    /\ Started("success_notification") => dag["validate_outputs"] = "success"
    /\ Started("cleanup_old_files") => dag["validate_outputs"] = "success"
    /\ Started("validate_outputs") =>
         (dag["validate_outputs"] = "success" <=> AllPresentNonEmpty)
    /\ dag["success_notification"] = "success" =>
         /\ dag["run_forecast"] = "success" /\ exit_code = 0
         /\ dag["validate_outputs"] = "success"
         /\ AllPresentNonEmpty
    /\ (Started("validate_outputs") /\ ~AllPresentNonEmpty) =>
         /\ dag["validate_outputs"] \in { "up_for_retry", "failed" }
         /\ ~Started("success_notification")
         /\ dag["success_notification"] \in { "none", "upstream_failed" }

\* run_forecast exited 0, then the delta file was found empty by every attempt
\* of the check: no notification, no cleanup
C19_Witness ==
    /\ dag["validate_input"] = "success"
    /\ dag["run_forecast"] = "success" /\ exit_code = 0
    /\ fsFiles[f_delta] = Truncated
    /\ dag["validate_outputs"] = "failed" /\ tries["validate_outputs"] = 3
    /\ dag["success_notification"] = "upstream_failed"
    /\ dag["cleanup_old_files"] = "upstream_failed"

BothDone == \A p \in Procs : inv[p].pc = "done"

\* C20, as stated: two invocations that overlap are ordered by no lock, and
\* after both have finished each of the three files holds the content written
\* by the invocation that wrote to that file last.
C20_LastWriterWins ==
    /\ \A p \in Procs : (inv[p].pc = "write" /\ ~inv[p].open) => ENABLED ConcOpen(p)
    /\ BothDone =>
         \A k \in 1..3 :
             fsFiles[OutputNames[k]] = FileOf(inv[lastWriter[OutputNames[k]]].tables[k])

\* C20, amended: no lock orders the two invocations; after both have finished,
\* each file that the two did not have open at the same time holds the content
\* written by the invocation that wrote to it last.  (A file both had open at
\* the same time can be left holding rows of both.)
C20_LastWriterWinsUnlessInterleaved ==
    /\ \A p \in Procs : (inv[p].pc = "write" /\ ~inv[p].open) => ENABLED ConcOpen(p)
    /\ BothDone =>
         \A k \in 1..3 :
             ~overlapped[OutputNames[k]] =>
                 fsFiles[OutputNames[k]] = FileOf(inv[lastWriter[OutputNames[k]]].tables[k])

\* both have finished: baseline was written last by invocation 2 and holds
\* its table, shock was written last by invocation 1 and holds its table, and
\* delta, which both had open at once, holds the table of neither
C20_Witness ==
    /\ BothDone
    /\ ~overlapped[f_baseline] /\ lastWriter[f_baseline] = 2
    /\ fsFiles[f_baseline].rows = inv[2].tables[1]
    /\ inv[1].tables[1] # inv[2].tables[1]
    /\ ~overlapped[f_shock] /\ lastWriter[f_shock] = 1
    /\ fsFiles[f_shock].rows = inv[1].tables[2]
    /\ overlapped[f_delta]
    /\ fsFiles[f_delta].rows # inv[1].tables[3]
    /\ fsFiles[f_delta].rows # inv[2].tables[3]

\* C23: the shock table has the columns and the rows of the baseline table in
\* the same order and differs from it only in forecast_price and
\* forecast_demand; the spike factor of 1.5 to 2.5 multiplies the price of
\* exactly the rows whose peak_period is 'peak'; the baseline table is what
\* it was before the shock table was generated.
C23_ShockFrame ==
    Generated =>
        /\ baseline_forecast = generate_baseline_forecast(df, rng0)
        /\ Len(scenario_shock_forecast) = Len(baseline_forecast)
        /\ \A i \in 1..Len(baseline_forecast) :
             LET b  == baseline_forecast[i]
                 s  == scenario_shock_forecast[i]
                 g1 == [ seed |-> rng0.seed, pos |-> rng0.pos + 2 * Len(baseline_forecast) ]
                 shocked == (b.forecast_price \div 10) * Normal(13, g1, i - 1)
             IN  /\ DOMAIN s = DOMAIN b
                 /\ \A c \in DOMAIN b \ { "forecast_price", "forecast_demand" } : s[c] = b[c]
                 /\ IF b.peak_period = "peak"
                    THEN \E u \in { 15, 20, 24 } :
                            s.forecast_price = ClipLower0((shocked \div 10) * u)
                    ELSE s.forecast_price = ClipLower0(shocked)

\* a peak row whose shocked price was multiplied by at least 1.5 next to a
\* shoulder row and an off-peak row whose shocked price was left as it was
C23_Witness ==
    /\ Successful
    /\ \E i, j, k \in 1..Len(baseline_forecast) :
         LET g1 == [ seed |-> rng0.seed, pos |-> rng0.pos + 2 * Len(baseline_forecast) ]
             shocked(n) == (baseline_forecast[n].forecast_price \div 10) * Normal(13, g1, n - 1)
         IN  /\ baseline_forecast[i].peak_period = "peak"
             /\ shocked(i) > 0
             /\ 10 * scenario_shock_forecast[i].forecast_price >= 15 * shocked(i)
             /\ baseline_forecast[j].peak_period = "shoulder"
             /\ shocked(j) > 0
             /\ scenario_shock_forecast[j].forecast_price = shocked(j)
             /\ baseline_forecast[k].peak_period = "other"
             /\ shocked(k) > 0
             /\ scenario_shock_forecast[k].forecast_price = shocked(k)
             /\ scenario_shock_forecast[k].forecast_demand # baseline_forecast[k].forecast_demand

\* no side-by-side invocation is between its call and its return, and one has returned
Quiescent ==
    /\ \A p \in Procs : inv[p].pc \in { "idle", "done" }
    /\ \E p \in Procs : inv[p].pc = "done"

\* C24: whenever no invocation is running and at least one has succeeded, the
\* three files on disk were written by one and the same invocation, and the
\* delta file is the shock file minus the baseline file row by row; this for
\* every interleaving of two invocations on the same output directory.
C24_DiskConsistent ==
    Quiescent =>
        LET b == fsFiles[f_baseline].rows
            s == fsFiles[f_shock].rows
            d == fsFiles[f_delta].rows
        IN  /\ \E p \in Procs :
                 /\ inv[p].pc = "done"
                 /\ b = inv[p].tables[1] /\ s = inv[p].tables[2] /\ d = inv[p].tables[3]
            /\ Len(s) = Len(b) /\ Len(d) = Len(b)
            /\ \A i \in 1..Len(b) :
                 /\ d[i].region = b[i].region /\ d[i].datetime = b[i].datetime
                 /\ d[i].delta_price = s[i].forecast_price - b[i].forecast_price
                 /\ d[i].delta_demand = s[i].forecast_demand - b[i].forecast_demand

\* the timestamp a cell of the input stands for
TsOf(cell) == IF cell.kind = "datetime64" THEN cell.n ELSE ParseTs(cell.txt)

\* the position of the input column that C30 says is the timestamp column:
\* the one named 'datetime', else the first whose lower-cased name contains
\* 'date' or 'time'
TimestampPosition ==
    IF \E j \in 1..Len(fsInput.columns) : fsInput.columns[j] = c_datetime
    THEN CHOOSE j \in 1..Len(fsInput.columns) : fsInput.columns[j] = c_datetime
    ELSE CHOOSE j \in 1..Len(fsInput.columns) :
            /\ Contains(s_date, Lower(fsInput.columns[j])) \/ Contains(s_time, Lower(fsInput.columns[j]))
            /\ \A i \in 1..(j - 1) :
                 ~(Contains(s_date, Lower(fsInput.columns[i])) \/ Contains(s_time, Lower(fsInput.columns[i])))

\* C30: a column named exactly 'datetime' is used as the timestamp column and
\* no column is renamed; otherwise the first column, in the input's column
\* order, whose lower-cased name contains 'date' or 'time' is renamed to
\* 'datetime' and used, and every other column keeps its name.
C30_TimestampResolution ==
    (calls = 1 /\ fsInput.state = "table"
        /\ pc \in { "convert", "generate", "write", "finish", "returned" }
        /\ raised \notin { "No datetime column found in input data",
                            "[Errno 2] No such file or directory: output_dir" }) =>
        LET k == TimestampPosition
        IN  /\ Len(df.columns) = Len(fsInput.columns)
            /\ df.columns[k] = c_datetime
            /\ \A j \in 1..Len(df.columns) : j # k => df.columns[j] = fsInput.columns[j]
            /\ Generated =>
                 \A i \in 1..Len(baseline_forecast) :
                     baseline_forecast[i].datetime >
                         Max({ TsOf(fsInput.rows[n][k]) : n \in 1..Len(fsInput.rows) })
            /\ Generated =>
                 baseline_forecast[1].datetime =
                     Max({ TsOf(fsInput.rows[n][k]) : n \in 1..Len(fsInput.rows) }) + 30

\* 'updated' comes before 'TIME': it is renamed and its values start the
\* horizon; 'TIME' keeps its name
C30_Witness ==
    /\ Successful
    /\ fsInput.columns = << c_updated, c_TIME, c_demand >>
    /\ df.columns = << c_datetime, c_TIME, c_demand >>
    /\ Len(fsInput.rows) = 2
    /\ baseline_forecast[1].datetime = fsInput.rows[2][1].n + 30
    /\ fsInput.rows[2][1].n # fsInput.rows[2][2].n

\* 'updated' comes before 'datetime' and contains 'date': no column is renamed
C30_WitnessExact ==
    /\ Successful
    /\ fsInput.columns = << c_updated, c_datetime, c_price >>
    /\ df.columns = fsInput.columns

\* the message m carries one attachment per path of paths, in order, each
\* with the bytes of its file
Verbatim(m, paths) ==
    /\ Len(m) = Len(paths)
    /\ \A k \in 1..Len(paths) :
         /\ m[k].filename = paths[k]
         /\ fsFiles[paths[k]].exists
         /\ get_content(m[k]) = fsFiles[paths[k]].rows

\* C21: every message send_forecast_email sends carries one attachment per
\* path in csv_files, holding that file's bytes, and a run of main that
\* reports success has mailed all three output files verbatim
C21_OneAttachmentPerPath ==
    /\ \A i \in 1..Len(outbox) : Verbatim(outbox[i], csv_files)
    /\ (send_from = "main" /\ email_exit = 0) =>
          (Len(outbox) = 1 /\ Verbatim(outbox[1], OutputNames))

\* the half of C21 about main alone
C21_MainAttachesAll ==
    (send_from = "main" /\ outbox # << >>) =>
        (Len(outbox) = 1 /\ Verbatim(outbox[1], OutputNames))

\* send_forecast_email has been entered
SendEntered ==
    \/ epc \in { "config", "attach", "smtp", "finally", "sent" }
    \/ smtp_log # << >>
    \/ email_result # NoResult

\* C25: in the email job's main, send_forecast_email is entered only after
\* the generator returned success in the same run; a generator failure ends
\* the run with exit status 1 and nothing of SMTP done; the exit status is 0
\* exactly when the generator succeeded and send_forecast_email returned
\* success
C25_EmailAfterForecast ==
    send_from = "main" =>
        /\ SendEntered => (Successful /\ caller = "email")
        /\ (pc = "returned" /\ ~result.ok /\ epc = "done") =>
              (email_exit = 1 /\ smtp_log = << >> /\ outbox = << >>)
        /\ epc = "done" => (email_exit = 0 <=> (result.ok /\ email_result.ok))
        /\ epc # "done" => email_exit = NoExit

C25_Witness ==
    /\ send_from = "main" /\ epc = "done"
    /\ result.ok /\ ~email_result.ok /\ smtp_log # << >>
    /\ email_exit = 1

IsPrefix(a, b) == Len(a) <= Len(b) /\ \A i \in 1..Len(a) : a[i] = b[i]

\* the calls of smtp_log before quit
BeforeQuit ==
    IF smtp_log # << >> /\ smtp_log[Len(smtp_log)] = "quit"
    THEN SubSeq(smtp_log, 1, Len(smtp_log) - 1)
    ELSE smtp_log

\* C29: without SMTP_HOST, SMTP_USER or SMTP_PASS send_forecast_email fails
\* and opens no connection; on a connection the calls come in the order
\* ehlo, (starttls, ehlo with TLS), login, send_message; quit is called
\* exactly once on every path that connected; success is returned only if
\* send_message completed
C29_SmtpProtocol ==
    /\ ~(smtp_env.host /\ smtp_env.user /\ smtp_env.pass) =>
          /\ smtp_log = << >>
          /\ ~email_result.ok
          /\ epc = "sent" => email_result # NoResult
    /\ IsPrefix(BeforeQuit,
                IF smtp_env.use_tls
                THEN << "connect", "ehlo", "starttls", "ehlo", "login", "send_message" >>
                ELSE << "connect", "ehlo", "login", "send_message" >>)
    /\ "quit" \notin Range(BeforeQuit)
    /\ (epc \in { "sent", "done" } /\ smtp_log # << >>) => smtp_log[Len(smtp_log)] = "quit"
    /\ epc \in { "smtp", "finally" } => BeforeQuit = smtp_log
    /\ email_result.ok =>
          /\ Len(outbox) = 1 /\ outbox[1] = msg
          /\ BeforeQuit[Len(BeforeQuit)] = "send_message"
          /\ pending.kind = "return"

C29_Witness ==
    /\ epc = "done" /\ smtp_env.use_tls
    /\ smtp_log = << "connect", "ehlo", "starttls", "ehlo", "login", "quit" >>
    /\ ~email_result.ok /\ outbox = << >>

\* a completed send_message whose quit raised
C29_WitnessQuitRaised ==
    /\ epc = "done" /\ outbox # << >> /\ ~email_result.ok
    /\ smtp_log[Len(smtp_log)] = "quit"

\* the 'user' entry of session t is the one of session s, or neither has one
SameUser(s, t) ==
    /\ In("user", s) <=> In("user", t)
    /\ In("user", s) => s["user"] = t["user"]

SameOAuthData(s, t) ==
    /\ \A k \in { "oauth_state", "oauth_timestamp" } : In(k, s) <=> In(k, t)
    /\ \A k \in { "oauth_state", "oauth_timestamp" } : In(k, s) => s[k] = t[k]

\* C22: the active gate require_login returns True on every call and leaves a
\* 'user' entry in the session, without entering the OAuth path
C22_GateAlwaysAllows ==
    last_call.fn = "require_login" =>
        /\ last_call.ret = "True"
        /\ In("user", session)
        /\ last_call.entered \cap OAuthPath = {}

\* C22 as the code has it: require_login never enters the OAuth path; every
\* call in which Sign Out is not clicked returns True and leaves a 'user'
\* entry, the demo user when there was none; the call in which Sign Out is
\* clicked deletes 'user' and ends in st.rerun() without returning; the call
\* that follows a sign-out returns True with the demo user
C22_GateAllowsUnlessSignOut ==
    last_call.fn = "require_login" =>
        /\ last_call.entered \cap OAuthPath = {}
        /\ last_call.requests = << >>
        /\ SameOAuthData(session0, session)
        /\ IF last_call.clicked
           THEN /\ last_call.ret = "rerun" /\ apc = "rerun"
                /\ ~In("user", session)
           ELSE /\ last_call.ret = "True" /\ apc = "idle"
                /\ In("user", session)
                /\ IF In("user", session0) THEN session["user"] = session0["user"]
                   ELSE session["user"] = demo_user
        /\ last_call.by_rerun => ~last_call.clicked

C22_Witness ==
    /\ last_call.fn = "require_login" /\ last_call.by_rerun
    /\ ~In("user", session0)
    /\ last_call.ret = "True"
    /\ session["user"] = demo_user

\* the callback that the call saw carried code and state
CarriedCodeAndState == In("code", last_call.query) /\ In("state", last_call.query)

\* the callback's state is the one the session stored when the call began
StateMatched ==
    /\ In("oauth_state", session0)
    /\ session0["oauth_state"] = last_call.query["state"]

\* C26: handle_oauth_callback stores a 'user' only when, in that call, the
\* callback carried code and state, its state equals the oauth_state that
\* get_google_auth_url stored, and the token exchange and the user-info
\* request both returned status 200; otherwise 'user' is left as it was
C26_UserStoredOnlyOnLogin ==
    last_call.fn = "handle_oauth_callback" =>
        /\ (last_call.stored \/ ~SameUser(session0, session)) =>
              /\ CarriedCodeAndState
              /\ StateMatched
              /\ session0["oauth_state"] \in 1..clock
              /\ last_call.token_status = 200
              /\ last_call.userinfo_status = 200
              /\ In("user", session)
        /\ ~last_call.stored => SameUser(session0, session)

C26_Witness ==
    /\ last_call.fn = "handle_oauth_callback" /\ last_call.stored
    /\ In("user", session0) /\ session0["user"] = demo_user
    /\ session["user"].email = "alice@example.com"

\* C27: when the callback's state differs from the stored oauth_state, or
\* none is stored, exchange_code_for_token returns 'Invalid state parameter'
\* and no request is sent; handle_oauth_callback then deletes oauth_state and
\* oauth_timestamp and returns False
C27_InvalidState ==
    ( /\ last_call.fn = "handle_oauth_callback"
      /\ CarriedCodeAndState /\ oauth_config
      /\ ~StateMatched ) =>
        /\ last_call.error = "Invalid state parameter"
        /\ last_call.requests = << >>
        /\ ~In("oauth_state", session) /\ ~In("oauth_timestamp", session)
        /\ last_call.ret = "False"
        /\ SameUser(session0, session)

C27_Witness ==
    /\ last_call.fn = "handle_oauth_callback"
    /\ CarriedCodeAndState /\ oauth_config
    /\ In("oauth_state", session0) /\ In("oauth_timestamp", session0)
    /\ session0["oauth_state"] # last_call.query["state"]
    /\ last_call.error = "Invalid state parameter"

\* the same with no state stored
C27_WitnessNoneStored ==
    /\ last_call.fn = "handle_oauth_callback"
    /\ CarriedCodeAndState /\ oauth_config
    /\ ~In("oauth_state", session0)
    /\ last_call.error = "Invalid state parameter"

\* C28: after handle_oauth_callback has processed a callback that reached
\* the token exchange, the session holds neither oauth_state nor
\* oauth_timestamp
C28_StateSingleUse ==
    ( /\ last_call.fn = "handle_oauth_callback"
      /\ CarriedCodeAndState /\ oauth_config ) =>
        (~In("oauth_state", session) /\ ~In("oauth_timestamp", session))

\* what C28 holds for: the login and every error of the token exchange
C28_ClearedUnlessUserInfoError ==
    ( /\ last_call.fn = "handle_oauth_callback"
      /\ CarriedCodeAndState /\ oauth_config
      /\ last_call.userinfo_status = 0 /\ Len(last_call.requests) < 2 ) =>
        (~In("oauth_state", session) /\ ~In("oauth_timestamp", session))

====
